---- MODULE Spec2Model ----
(***************************************************************************)
(* Single-container 3D packing of valiokarelov/freight-calculator-backend. *)
(*                                                                         *)
(* One packing run is modelled per behaviour: the initial state fixes the  *)
(* packing function called (algo), the container and the list of cargo     *)
(* specs; the actions are the steps of that function: its preparation      *)
(* (quantity expansion, filtering, sorting), one loop iteration per unit   *)
(* item, and its return.                                                   *)
(*                                                                         *)
(* All lengths are whole centimetres and all weights whole kilograms, so   *)
(* every coordinate the code computes is an integer.  Comparisons against  *)
(* the code's fractional constants are written multiplied out             *)
(* (z > 0.1 is 10*z > 1, area >= L*W*0.5 is 2*area >= L*W).                *)
(***************************************************************************)
EXTENDS Integers, Sequences, FiniteSets, TLC

VARIABLES
    algo,              \* the packing function this run calls
    container,         \* Container3D / Container: length, width, height, max_weight
    specs,             \* the input list of CargoItem3D / BinPackingItem
    pc,                \* "call", "place", "return" or "raise"
    items,             \* individual_items / sorted_items: the unit items
    order,             \* indices into items, in the order the loop visits them
    cursor,            \* position in order of the next loop iteration
    placed_items,      \* algorithms/: indices into items, in commit order
    placed,            \* advanced_bin_packing: the committed test_item copies
    remaining_volume,  \* volume_optimized_3d_packing's running volume budget
    dropped,           \* indices into items that apply_strict_volume_filter left out
    oversized_items,   \* indices into items that fit the container in no orientation
    early_exit,        \* volume_optimized_3d_packing left its loop by the break
    result,            \* the list the function returned
    error,             \* the exception that ended the run, "" if none
    runs,              \* benchmark_packing_algorithms: the two runs in the thread pool
    validation,        \* one call of each validator on the same arguments, and the verdicts
    batching           \* process_in_smart_batches: the locals of its loop

vars == <<algo, container, specs, pc, items, order, cursor, placed_items, placed,
          remaining_volume, dropped, oversized_items, early_exit, result, error,
          runs, validation, batching>>

(***************************************************************************)
(* Bounds and input domains                                                *)
(***************************************************************************)
MaxQty == 2

Algorithms == {"advanced", "optimized", "debug", "binpack"}

Box(l, w, h, mw) == [length |-> l, width |-> w, height |-> h, max_weight |-> mw]

DefaultMaxWeight == 50000

Containers ==
    { Box(2, 2, 2, 3),
      Box(1, 1, 3, DefaultMaxWeight),
      Box(2, 1, 1, DefaultMaxWeight),
      Box(2, 1, 3, DefaultMaxWeight),
      Box(4, 1, 2, DefaultMaxWeight) }

Shape(l, w, h, wt, ns, nr) ==
    [length |-> l, width |-> w, height |-> h, weight |-> wt,
     non_stackable |-> ns, non_rotatable |-> nr]

\* The last shape has a weight the data model forbids (not > 0).
Shapes ==
    { Shape(1, 1, 1, 1, FALSE, FALSE),
      Shape(2, 1, 1, 2, FALSE, FALSE),
      Shape(1, 2, 1, 1, FALSE, FALSE),
      Shape(1, 1, 2, 1, FALSE, FALSE),
      Shape(3, 1, 1, 1, FALSE, FALSE),
      Shape(1, 2, 1, 2, FALSE, TRUE),
      Shape(2, 2, 1, 2, TRUE,  FALSE),
      Shape(1, 1, 2, 1, TRUE,  FALSE),
      Shape(2, 1, 1, 2, TRUE,  TRUE),
      Shape(1, 1, 1, 0, FALSE, FALSE) }

\* Spec ids by position in the request: pairwise distinct strings.
SpecIds == <<"a", "a_0", "a_1">>

CargoSpec(sh, id, q) ==
    [id |-> id, length |-> sh.length, width |-> sh.width, height |-> sh.height,
     weight |-> sh.weight, quantity |-> q,
     non_stackable |-> sh.non_stackable, non_rotatable |-> sh.non_rotatable]

InputSpecs ==
    { <<CargoSpec(s, SpecIds[1], q)>> : s \in Shapes, q \in 1..MaxQty }
    \cup
    { <<CargoSpec(s, SpecIds[1], q), CargoSpec(t, SpecIds[2], r)>> :
          s \in Shapes, q \in 1..MaxQty, t \in Shapes, r \in 1..MaxQty }

Request(c, S) == [container |-> c, specs |-> S]

\* Further requests: one in which advanced_3d_packing places an item at a
\* gap candidate of the adjacency strategy, one in which
\* volume_optimized_3d_packing places an item by its grid search, one with
\* two items of equal volume and different proportions, and one whose items
\* leave a footprint of area 10 above them (0.7 of it is a whole number).
\* The last two have a container large enough for the grid searches of
\* try_fine_grid_placement and try_adaptive_grid_placement to run past their
\* iteration limits: a non-stackable slab covers the floor but for a strip
\* one unit wide (or covers all of it), so that no grid position is valid.
Scenarios ==
    { Request(Box(2, 4, 3, DefaultMaxWeight),
              << CargoSpec(Shape(2, 1, 1, 1, FALSE, TRUE), SpecIds[1], 2),
                 CargoSpec(Shape(1, 4, 2, 1, FALSE, FALSE), SpecIds[2], 1),
                 CargoSpec(Shape(1, 2, 3, 1, FALSE, FALSE), SpecIds[3], 1) >>),
      Request(Box(6, 4, 2, DefaultMaxWeight),
              << CargoSpec(Shape(4, 1, 2, 1, FALSE, FALSE), SpecIds[1], 2),
                 CargoSpec(Shape(3, 3, 1, 1, FALSE, TRUE), SpecIds[2], 1) >>),
      Request(Box(4, 2, 1, DefaultMaxWeight),
              << CargoSpec(Shape(2, 2, 1, 1, FALSE, FALSE), SpecIds[1], 1),
                 CargoSpec(Shape(4, 1, 1, 1, FALSE, FALSE), SpecIds[2], 1) >>),
      Request(Box(5, 2, 2, DefaultMaxWeight),
              << CargoSpec(Shape(3, 2, 1, 1, FALSE, FALSE), SpecIds[1], 1),
                 CargoSpec(Shape(1, 1, 1, 1, FALSE, FALSE), SpecIds[2], 1) >>),
      Request(Box(55, 50, 30, DefaultMaxWeight),
              << CargoSpec(Shape(55, 49, 1, 1, TRUE, TRUE), SpecIds[1], 1),
                 CargoSpec(Shape(1, 2, 1, 1, FALSE, FALSE), SpecIds[2], 1),
                 CargoSpec(Shape(1, 1, 1, 1, FALSE, TRUE), SpecIds[3], 1) >>),
      Request(Box(55, 50, 30, DefaultMaxWeight),
              << CargoSpec(Shape(55, 50, 1, 1, TRUE, TRUE), SpecIds[1], 1),
                 CargoSpec(Shape(1, 1, 1, 1, FALSE, FALSE), SpecIds[2], 1),
                 CargoSpec(Shape(1, 1, 1, 1, FALSE, TRUE), SpecIds[3], 1) >>) }

Requests == { Request(c, S) : c \in Containers, S \in InputSpecs } \cup Scenarios

(***************************************************************************)
(* Arithmetic and sequence helpers                                         *)
(***************************************************************************)
Min2(a, b) == IF a <= b THEN a ELSE b
Max2(a, b) == IF a >= b THEN a ELSE b
Min3(a, b, c) == Min2(a, Min2(b, c))
Max3(a, b, c) == Max2(a, Max2(b, c))
Abs(a) == IF a < 0 THEN -a ELSE a

Volume(it) == it.length * it.width * it.height

RECURSIVE SumSeq(_)
SumSeq(s) == IF s = <<>> THEN 0 ELSE Head(s) + SumSeq(Tail(s))

\* range(0, stop, step) as a sequence
Range0(stop, step) ==
    IF stop <= 0 THEN <<>>
    ELSE [k \in 1..(((stop - 1) \div step) + 1) |-> (k - 1) * step]

\* list.sort / sorted: a stable sort by a key; Before(a, b) is key(a) < key(b)
StableSort(s, Before(_, _)) ==
    LET n == Len(s)
        Rank(i) == Cardinality({j \in 1..n : Before(s[j], s[i])})
                   + Cardinality({j \in 1..(i - 1) :
                                      ~Before(s[j], s[i]) /\ ~Before(s[i], s[j])})
                   + 1
    IN  [p \in 1..n |-> s[CHOOSE i \in 1..n : Rank(i) = p]]

\* sorted(set of positions, key = (pos[2], pos[1], pos[0]))
PosBefore(p, q) ==
    \/ p[3] < q[3]
    \/ p[3] = q[3] /\ p[2] < q[2]
    \/ p[3] = q[3] /\ p[2] = q[2] /\ p[1] < q[1]

\* The candidates sorted by (x, y, z) instead.
SortedByXYZ(S) ==
    LET Before(p, q) == \/ p[1] < q[1]
                        \/ p[1] = q[1] /\ p[2] < q[2]
                        \/ p[1] = q[1] /\ p[2] = q[2] /\ p[3] < q[3]
        n == Cardinality(S)
    IN  [k \in 1..n |-> CHOOSE p \in S : Cardinality({q \in S : Before(q, p)}) = k - 1]

SortedPositions(S) ==
    LET n == Cardinality(S)
    IN  [k \in 1..n |-> CHOOSE p \in S : Cardinality({q \in S : PosBefore(q, p)}) = k - 1]

NoPosition == [found |-> FALSE]
Found(pos, via) == [found |-> TRUE, pos |-> pos, via |-> via]

(***************************************************************************)
(* Quantity expansion (algorithms/)                                        *)
(***************************************************************************)
\* One PlacedItem3D per unit of quantity; i is the loop index of range(quantity).
\* spec (the index of the originating spec) and via (the strategy that placed
\* the item) are bookkeeping of the model; vol is the cached _volume.
Unit3D(sp, k, i) ==
    [id |-> IF sp.quantity > 1 THEN sp.id \o "_" \o ToString(i + 1) ELSE sp.id,
     spec |-> k,
     length |-> sp.length, width |-> sp.width, height |-> sp.height,
     weight |-> sp.weight,
     non_stackable |-> sp.non_stackable, non_rotatable |-> sp.non_rotatable,
     x |-> 0, y |-> 0, z |-> 0, fitted |-> FALSE, rotated |-> FALSE,
     vol |-> sp.length * sp.width * sp.height,
     via |-> "none"]

RECURSIVE Expand3D(_, _)
Expand3D(S, k) ==
    IF k > Len(S) THEN <<>>
    ELSE [j \in 1..S[k].quantity |-> Unit3D(S[k], k, j - 1)] \o Expand3D(S, k + 1)

(***************************************************************************)
(* algorithms/advanced_packing.py                                          *)
(***************************************************************************)
\* The sort key of advanced_3d_packing:
\* (-volume, min dimension / max dimension, -weight), compared ascending.
AdvancedKeyBefore(a, b) ==
    LET va == Volume(a)
        vb == Volume(b)
        mina == Min3(a.length, a.width, a.height)
        maxa == Max3(a.length, a.width, a.height)
        minb == Min3(b.length, b.width, b.height)
        maxb == Max3(b.length, b.width, b.height)
    IN  \/ va > vb
        \/ va = vb /\ mina * maxb < minb * maxa
        \/ va = vb /\ mina * maxb = minb * maxa /\ a.weight > b.weight

Orientation(l, w, h, r) ==
    [none |-> FALSE, length |-> l, width |-> w, height |-> h, rotated |-> r]

\* The orientations with the length/width swap tried first.
get_orientations_swap_first(item) ==
    IF item.non_rotatable
    THEN <<Orientation(item.length, item.width, item.height, FALSE)>>
    ELSE <<Orientation(item.width, item.length, item.height, TRUE),
           Orientation(item.length, item.width, item.height, FALSE)>>

get_orientations_improved(item) ==
    IF item.non_rotatable
    THEN <<Orientation(item.length, item.width, item.height, FALSE)>>
    ELSE <<Orientation(item.length, item.width, item.height, FALSE),
           Orientation(item.width, item.length, item.height, TRUE)>>
         \o (IF Cardinality({item.length, item.width, item.height}) > 1
             THEN <<Orientation(item.height, item.width, item.length, TRUE),
                    Orientation(item.width, item.height, item.length, TRUE)>>
             ELSE <<>>)

\* A collision test that never reports a collision.
NeverCollide(x, y, z, L, W, H, e) == FALSE

\* The 3D collision test shared by the validators of algorithms/ (tolerance 0).
BoxesCollide(x, y, z, L, W, H, e) ==
    /\ x < e.x + e.length /\ x + L > e.x
    /\ y < e.y + e.width  /\ y + W > e.y
    /\ z < e.z + e.height /\ z + H > e.z

OverlapX(x, L, e) == Max2(0, Min2(x + L, e.x + e.length) - Max2(x, e.x))
OverlapY(y, W, e) == Max2(0, Min2(y + W, e.y + e.width) - Max2(y, e.y))

\* The support loop of is_valid_position_improved from P[k] on, acc accumulated
\* so far: it stops as soon as the required area is reached.
RECURSIVE SupportImproved(_, _, _, _, _, _, _, _)
SupportImproved(P, k, acc, x, y, z, L, W) ==
    IF k > Len(P) THEN acc
    ELSE LET e == P[k]
             ox == OverlapX(x, L, e)
             oy == OverlapY(y, W, e)
             counts == /\ ~e.non_stackable
                       /\ 10 * Abs(e.z + e.height - z) < 1
                       /\ ox > 0 /\ oy > 0
             acc2 == IF counts THEN acc + ox * oy ELSE acc
         IN  IF counts /\ 2 * acc2 >= L * W
             THEN acc2
             ELSE SupportImproved(P, k + 1, acc2, x, y, z, L, W)

\* The validator with a strict support comparison: support equal to half the
\* footprint is rejected.
is_valid_position_strict(c, P, pos, L, W, H, item) ==
    LET x == pos[1]
        y == pos[2]
        z == pos[3]
    IN  IF x + L > c.length \/ y + W > c.width \/ z + H > c.height THEN FALSE
        ELSE IF \E k \in 1..Len(P) : BoxesCollide(x, y, z, L, W, H, P[k]) THEN FALSE
        ELSE IF 10 * z > 1
             THEN IF item.non_stackable THEN FALSE
                  ELSE 2 * SupportImproved(P, 1, 0, x, y, z, L, W) > L * W
        ELSE TRUE

is_valid_position_improved(c, P, pos, L, W, H, item) ==
    LET x == pos[1]
        y == pos[2]
        z == pos[3]
    IN  IF x + L > c.length \/ y + W > c.width \/ z + H > c.height THEN FALSE
        ELSE IF \E k \in 1..Len(P) : BoxesCollide(x, y, z, L, W, H, P[k]) THEN FALSE
        ELSE IF 10 * z > 1
             THEN IF item.non_stackable THEN FALSE
                  ELSE 2 * SupportImproved(P, 1, 0, x, y, z, L, W) >= L * W
        ELSE TRUE

\* for pos in sorted_...: if is_valid_position_improved(...): return pos
FirstValidImproved(c, P, seq, L, W, H, item, via) ==
    LET ok == {k \in 1..Len(seq) : is_valid_position_improved(c, P, seq[k], L, W, H, item)}
    IN  IF ok = {} THEN NoPosition
        ELSE Found(seq[CHOOSE k \in ok : \A j \in ok : k <= j], via)

try_corner_placement(c, P, L, W, H, item) ==
    IF P = <<>>
    THEN IF is_valid_position_improved(c, P, <<0, 0, 0>>, L, W, H, item)
         THEN Found(<<0, 0, 0>>, "corner")
         ELSE NoPosition
    ELSE LET potential_corners(e) ==
                 { <<e.x + e.length, e.y, e.z>>,
                   <<e.x, e.y + e.width, e.z>>,
                   <<e.x + e.length, e.y + e.width, e.z>> }
                 \cup
                 (IF ~e.non_stackable /\ ~item.non_stackable
                  THEN { <<e.x, e.y, e.z + e.height>>,
                         <<e.x + e.length, e.y, e.z + e.height>>,
                         <<e.x, e.y + e.width, e.z + e.height>>,
                         <<e.x + e.length, e.y + e.width, e.z + e.height>> }
                  ELSE {})
             corners ==
                 { p \in UNION { potential_corners(P[k]) : k \in 1..Len(P) } :
                       /\ p[1] + L <= c.length
                       /\ p[2] + W <= c.width
                       /\ p[3] + H <= c.height }
         IN  FirstValidImproved(c, P, SortedPositions(corners), L, W, H, item, "corner")

RecentLimitImproved == 20

\* sorted(placed_items, key = volume, reverse = True)[:20]
RecentItemsImproved(P) ==
    LET Bigger(a, b) == Volume(a) > Volume(b)
        sorted == StableSort(P, Bigger)
    IN  SubSeq(sorted, 1, Min2(RecentLimitImproved, Len(sorted)))

\* The adjacency strategy with the gap candidates taken unconditionally, i.e.
\* without the guards existing.x >= L and existing.y >= W.
try_adjacent_placement_unguarded(c, P, L, W, H, item) ==
    LET recent_items == RecentItemsImproved(P)
        candidates(e) ==
            (IF e.x + e.length + L <= c.length
             THEN { <<e.x + e.length, e.y, e.z>> } ELSE {})
            \cup
            (IF e.y + e.width + W <= c.width
             THEN { <<e.x, e.y + e.width, e.z>> } ELSE {})
            \cup
            (IF ~e.non_stackable /\ ~item.non_stackable
                /\ e.z + e.height + H <= c.height
             THEN { <<e.x, e.y, e.z + e.height>> } ELSE {})
            \cup
            { <<e.x - L, e.y, e.z>>, <<e.x, e.y - W, e.z>> }
        candidate_positions ==
            UNION { candidates(recent_items[k]) : k \in 1..Len(recent_items) }
    IN  FirstValidImproved(c, P, SortedPositions(candidate_positions),
                           L, W, H, item, "adjacent")

try_adjacent_placement_improved(c, P, L, W, H, item) ==
    LET recent_items == RecentItemsImproved(P)
        candidates(e) ==
            (IF e.x + e.length + L <= c.length
             THEN { <<e.x + e.length, e.y, e.z>> } ELSE {})
            \cup
            (IF e.y + e.width + W <= c.width
             THEN { <<e.x, e.y + e.width, e.z>> } ELSE {})
            \cup
            (IF ~e.non_stackable /\ ~item.non_stackable
                /\ e.z + e.height + H <= c.height
             THEN { <<e.x, e.y, e.z + e.height>> } ELSE {})
            \cup
            (IF e.x >= L THEN { <<e.x - L, e.y, e.z>> } ELSE {})
            \cup
            (IF e.y >= W THEN { <<e.x, e.y - W, e.z>> } ELSE {})
        candidate_positions ==
            UNION { candidates(recent_items[k]) : k \in 1..Len(recent_items) }
    IN  FirstValidImproved(c, P, SortedPositions(candidate_positions),
                           L, W, H, item, "adjacent")

MaxIterationsFine == 800

\* The positions of three nested range loops (z outermost, x innermost), in
\* loop order.
GridPositions(zs, ys, xs) ==
    LET nx == Len(xs)
        ny == Len(ys)
    IN  [k \in 1..(Len(zs) * ny * nx) |->
            << xs[((k - 1) % nx) + 1],
               ys[(((k - 1) \div nx) % ny) + 1],
               zs[((k - 1) \div (nx * ny)) + 1] >>]

try_fine_grid_placement(c, P, L, W, H, item) ==
    LET step_x == Max2(3, Min2(L \div 3, c.length \div 20))
        step_y == Max2(3, Min2(W \div 3, c.width \div 20))
        step_z == Max2(2, Min2(H \div 3, c.height \div 25))
        grid == GridPositions(Range0(c.height - H + 1, step_z),
                              Range0(c.width - W + 1, step_y),
                              Range0(c.length - L + 1, step_x))
        tried == SubSeq(grid, 1, Min2(MaxIterationsFine, Len(grid)))
    IN  FirstValidImproved(c, P, tried, L, W, H, item, "grid")

Placement(p, o) ==
    [found |-> TRUE, raised |-> FALSE,
     x |-> p.pos[1], y |-> p.pos[2], z |-> p.pos[3],
     length |-> o.length, width |-> o.width, height |-> o.height,
     rotated |-> o.rotated, via |-> p.via]

NoPlacement == [found |-> FALSE, raised |-> FALSE]

RECURSIVE FindImprovedFrom(_, _, _, _, _)
FindImprovedFrom(c, P, item, orientations, k) ==
    IF k > Len(orientations) THEN NoPlacement
    ELSE LET o == orientations[k]
             L == o.length
             W == o.width
             H == o.height
         IN  IF L > c.length \/ W > c.width \/ H > c.height
             THEN FindImprovedFrom(c, P, item, orientations, k + 1)
             ELSE LET corner == try_corner_placement(c, P, L, W, H, item)
                  IN  IF corner.found THEN Placement(corner, o)
                      ELSE LET adjacent == try_adjacent_placement_improved(c, P, L, W, H, item)
                           IN  IF adjacent.found THEN Placement(adjacent, o)
                               ELSE LET grid == try_fine_grid_placement(c, P, L, W, H, item)
                                    IN  IF grid.found THEN Placement(grid, o)
                                        ELSE FindImprovedFrom(c, P, item, orientations, k + 1)

\* An orientation loop that runs the grid search before the corner and
\* adjacency strategies.
RECURSIVE FindGridFirstFrom(_, _, _, _, _)
FindGridFirstFrom(c, P, item, orientations, k) ==
    IF k > Len(orientations) THEN NoPlacement
    ELSE LET o == orientations[k]
             L == o.length
             W == o.width
             H == o.height
         IN  IF L > c.length \/ W > c.width \/ H > c.height
             THEN FindGridFirstFrom(c, P, item, orientations, k + 1)
             ELSE LET grid == try_fine_grid_placement(c, P, L, W, H, item)
                      corner == try_corner_placement(c, P, L, W, H, item)
                      adjacent == try_adjacent_placement_improved(c, P, L, W, H, item)
                  IN  IF grid.found THEN Placement(grid, o)
                      ELSE IF corner.found THEN Placement(corner, o)
                      ELSE IF adjacent.found THEN Placement(adjacent, o)
                      ELSE FindGridFirstFrom(c, P, item, orientations, k + 1)

find_best_position_grid_first(c, P, item) ==
    FindGridFirstFrom(c, P, item, get_orientations_improved(item), 1)

find_best_position_improved(c, P, item) ==
    FindImprovedFrom(c, P, item, get_orientations_improved(item), 1)

(***************************************************************************)
(* algorithms/optimized_packing.py                                         *)
(*                                                                         *)
(* The expansion passes _volume to the PlacedItem3D constructor and the    *)
(* rest of the file reads item._volume; the model takes the attribute as   *)
(* stored (field vol), as the code's comment says it is.                   *)
(***************************************************************************)
\* The dimension triples volume_prefilter and debug_3d_packing test against
\* the container.
AllRotations(item) ==
    IF item.non_rotatable
    THEN { <<item.length, item.width, item.height>> }
    ELSE { <<item.length, item.width, item.height>>,
           <<item.width, item.length, item.height>>,
           <<item.height, item.width, item.length>>,
           <<item.width, item.height, item.length>>,
           <<item.length, item.height, item.width>>,
           <<item.height, item.length, item.width>> }

fits_dimensionally(item, c) ==
    \E d \in AllRotations(item) :
        d[1] <= c.length /\ d[2] <= c.width /\ d[3] <= c.height

\* The subsequence of the index sequence s whose elements satisfy Keep.
FilterSeq(s, Keep(_)) == SelectSeq(s, Keep)

SurfaceArea(it) ==
    2 * (it.length * it.width + it.length * it.height + it.width * it.height)

\* The greedy selection loop of apply_strict_volume_filter over the sorted
\* index sequence s from position k on, current_volume accumulated so far.
RECURSIVE StrictSelect(_, _, _, _, _)
StrictSelect(U, s, k, current_volume, container_volume) ==
    IF k > Len(s) THEN <<>>
    ELSE IF 100 * (current_volume + U[s[k]].vol) <= 85 * container_volume
         THEN <<s[k]>> \o StrictSelect(U, s, k + 1, current_volume + U[s[k]].vol,
                                       container_volume)
         ELSE StrictSelect(U, s, k + 1, current_volume, container_volume)

\* items_with_efficiency.sort(key = efficiency, reverse = True), then the
\* selection; efficiency is volume / surface area.
apply_strict_volume_filter(U, s, container_volume) ==
    LET MoreEfficient(i, j) ==
            U[i].vol * SurfaceArea(U[j]) > U[j].vol * SurfaceArea(U[i])
    IN  StrictSelect(U, StableSort(s, MoreEfficient), 1, 0, container_volume)

\* The dimensional split of volume_prefilter: indices of U that fit.
ViableByDimensions(U, c) ==
    LET Fits(i) == fits_dimensionally(U[i], c)
    IN  FilterSeq([k \in 1..Len(U) |-> k], Fits)

OversizedByDimensions(U, c) ==
    LET TooBig(i) == ~fits_dimensionally(U[i], c)
    IN  FilterSeq([k \in 1..Len(U) |-> k], TooBig)

\* The dimensional split alone, with no strict filtering.
volume_prefilter_by_dimensions(U, c, container_volume) == ViableByDimensions(U, c)

\* volume_prefilter's viable_items: strict filtering when the requested
\* volume exceeds 0.95 of the container volume.
volume_prefilter(U, c, container_volume) ==
    LET total_item_volume == SumSeq([k \in 1..Len(U) |-> U[k].vol])
        viable_items == ViableByDimensions(U, c)
    IN  IF 100 * total_item_volume > 95 * container_volume
        THEN apply_strict_volume_filter(U, viable_items, container_volume)
        ELSE viable_items

LargeIndexCap == 20

smart_priority_sort(U, s) ==
    IF s = <<>> THEN <<>>
    ELSE
    LET VolDesc(i, j) == U[i].vol > U[j].vol
        by_volume == StableSort(s, VolDesc)
        volume_threshold == U[by_volume[Min2(Len(s) \div 4, LargeIndexCap) + 1]].vol
        IsLarge(i) == U[i].vol >= volume_threshold
        IsSmall(i) == U[i].vol < volume_threshold
        SmallBefore(i, j) == AdvancedKeyBefore(U[i], U[j])
    IN  StableSort(FilterSeq(s, IsLarge), VolDesc)
        \o StableSort(FilterSeq(s, IsSmall), SmallBefore)

NoneOrientation == [none |-> TRUE]

get_orientations_hybrid(item) ==
    IF item.non_rotatable
    THEN <<Orientation(item.length, item.width, item.height, FALSE)>>
    ELSE <<Orientation(item.length, item.width, item.height, FALSE),
           Orientation(item.width, item.length, item.height, TRUE),
           IF Max3(item.length, item.width, item.height)
                  > 2 * Min3(item.length, item.width, item.height)
           THEN Orientation(item.height, item.width, item.length, TRUE)
           ELSE NoneOrientation>>

\* The support loop of is_valid_position_simple, with its early exit.
RECURSIVE SupportSimple(_, _, _, _, _, _, _, _)
SupportSimple(P, k, acc, x, y, z, L, W) ==
    IF k > Len(P) THEN acc
    ELSE LET e == P[k]
             ox == OverlapX(x, L, e)
             oy == OverlapY(y, W, e)
             skipped == e.non_stackable \/ 10 * Abs(e.z + e.height - z) > 1
             counts == ~skipped /\ ox > 0 /\ oy > 0
             acc2 == IF counts THEN acc + ox * oy ELSE acc
         IN  IF counts /\ 2 * acc2 >= L * W
             THEN acc2
             ELSE SupportSimple(P, k + 1, acc2, x, y, z, L, W)

is_valid_position_simple(c, P, pos, L, W, H, item) ==
    LET x == pos[1]
        y == pos[2]
        z == pos[3]
        Quick(e) == /\ Abs(e.x - x) < e.length + L
                    /\ Abs(e.y - y) < e.width + W
                    /\ Abs(e.z - z) < e.height + H
    IN  IF x + L > c.length \/ y + W > c.width \/ z + H > c.height THEN FALSE
        ELSE IF \E k \in 1..Len(P) :
                    Quick(P[k]) /\ BoxesCollide(x, y, z, L, W, H, P[k]) THEN FALSE
        ELSE IF 10 * z > 1
             THEN IF item.non_stackable THEN FALSE
                  ELSE 2 * SupportSimple(P, 1, 0, x, y, z, L, W) >= L * W
        ELSE TRUE

FirstValidSimple(c, P, seq, L, W, H, item, via) ==
    LET ok == {k \in 1..Len(seq) : is_valid_position_simple(c, P, seq[k], L, W, H, item)}
    IN  IF ok = {} THEN NoPosition
        ELSE Found(seq[CHOOSE k \in ok : \A j \in ok : k <= j], via)

RecentLimitOptimized == 10

try_adjacent_placement_optimized(c, P, L, W, H, item) ==
    IF P = <<>>
    THEN IF is_valid_position_simple(c, P, <<0, 0, 0>>, L, W, H, item)
         THEN Found(<<0, 0, 0>>, "adjacent")
         ELSE NoPosition
    ELSE LET n == Len(P)
             recent_items == SubSeq(P, n - Min2(RecentLimitOptimized, n) + 1, n)
             positions(e) ==
                 { <<e.x + e.length, e.y, e.z>>, <<e.x, e.y + e.width, e.z>> }
                 \cup
                 (IF ~e.non_stackable /\ ~item.non_stackable
                     /\ e.z + e.height + H <= c.height
                  THEN { <<e.x, e.y, e.z + e.height>> } ELSE {})
             candidate_positions ==
                 { p \in UNION { positions(recent_items[k]) : k \in 1..Len(recent_items) } :
                       /\ p[1] + L <= c.length
                       /\ p[2] + W <= c.width
                       /\ p[3] + H <= c.height }
         IN  FirstValidSimple(c, P, SortedPositions(candidate_positions),
                              L, W, H, item, "adjacent")

\* step_factor in tenths: 0.5, 0.3 or 0.2 by the share of volume remaining.
StepFactorTenths(remaining, c) ==
    LET container_volume == c.length * c.width * c.height
    IN  IF 10 * remaining > 5 * container_volume THEN 5
        ELSE IF 10 * remaining > 2 * container_volume THEN 3
        ELSE 2

\* The steps as the range loops use them: int(max(floor, dimension * step_factor)).
calculate_adaptive_grid_density(remaining, c, L, W, H) ==
    LET f == StepFactorTenths(remaining, c)
    IN  [step_x |-> Max2(5, (L * f) \div 10),
         step_y |-> Max2(5, (W * f) \div 10),
         step_z |-> Max2(3, (H * f) \div 10)]

MaxIterationsAdaptive == 1000

try_adaptive_grid_placement(c, P, L, W, H, item, grid_density) ==
    LET grid == GridPositions(Range0(c.height - H + 1, grid_density.step_z),
                              Range0(c.width - W + 1, grid_density.step_y),
                              Range0(c.length - L + 1, grid_density.step_x))
        tried == SubSeq(grid, 1, Min2(MaxIterationsAdaptive, Len(grid)))
    IN  FirstValidSimple(c, P, tried, L, W, H, item, "grid")

\* Subscripting the None that get_orientations_hybrid can return raises
\* TypeError.
RaisedPlacement == [found |-> FALSE, raised |-> TRUE]

RECURSIVE FindOptimizedFrom(_, _, _, _, _, _)
FindOptimizedFrom(c, P, item, remaining, orientations, k) ==
    IF k > Len(orientations) THEN NoPlacement
    ELSE LET o == orientations[k]
         IN  IF o.none THEN RaisedPlacement
             ELSE
             LET L == o.length
                 W == o.width
                 H == o.height
             IN  IF L > c.length \/ W > c.width \/ H > c.height
                 THEN FindOptimizedFrom(c, P, item, remaining, orientations, k + 1)
                 ELSE LET adjacent == try_adjacent_placement_optimized(c, P, L, W, H, item)
                      IN  IF adjacent.found THEN Placement(adjacent, o)
                          ELSE LET grid == try_adaptive_grid_placement(c, P, L, W, H, item,
                                               calculate_adaptive_grid_density(remaining, c, L, W, H))
                               IN  IF grid.found THEN Placement(grid, o)
                                   ELSE FindOptimizedFrom(c, P, item, remaining,
                                                          orientations, k + 1)

find_best_position_optimized(c, P, item, remaining) ==
    FindOptimizedFrom(c, P, item, remaining, get_orientations_hybrid(item), 1)

(***************************************************************************)
(* algorithms/debug_packing.py                                             *)
(***************************************************************************)
\* The support sum of is_position_valid_debug: a full scan.
RECURSIVE SupportDebug(_, _, _, _, _, _, _)
SupportDebug(P, k, x, y, z, L, W) ==
    IF k > Len(P) THEN 0
    ELSE LET e == P[k]
             ox == OverlapX(x, L, e)
             oy == OverlapY(y, W, e)
             counts == /\ ~e.non_stackable
                       /\ 10 * Abs(e.z + e.height - z) < 1
                       /\ ox > 0 /\ oy > 0
         IN  (IF counts THEN ox * oy ELSE 0) + SupportDebug(P, k + 1, x, y, z, L, W)

is_position_valid_debug(c, P, pos, L, W, H, item) ==
    LET x == pos[1]
        y == pos[2]
        z == pos[3]
    IN  IF x + L > c.length \/ y + W > c.width \/ z + H > c.height THEN FALSE
        ELSE IF \E k \in 1..Len(P) : BoxesCollide(x, y, z, L, W, H, P[k]) THEN FALSE
        ELSE IF 10 * z > 1
             THEN IF item.non_stackable THEN FALSE
                  ELSE ~(2 * SupportDebug(P, 1, x, y, z, L, W) < L * W)
        ELSE TRUE

RecentLimitDebug == 5

\* positions_to_try of find_simple_position, less the None entries: the
\* origin, then right, front and top of each of the last five placed items.
RECURSIVE AdjacentDebug(_, _)
AdjacentDebug(R, k) ==
    IF k > Len(R) THEN <<>>
    ELSE LET e == R[k]
         IN  << <<e.x + e.length, e.y, e.z>>, <<e.x, e.y + e.width, e.z>> >>
             \o (IF ~e.non_stackable THEN << <<e.x, e.y, e.z + e.height>> >> ELSE <<>>)
             \o AdjacentDebug(R, k + 1)

positions_to_try(P) ==
    LET n == Len(P)
    IN  << <<0, 0, 0>> >> \o AdjacentDebug(SubSeq(P, Max2(1, n - RecentLimitDebug + 1), n), 1)

RECURSIVE FindSimpleFrom(_, _, _, _, _)
FindSimpleFrom(c, P, item, orientations, k) ==
    IF k > Len(orientations) THEN NoPlacement
    ELSE LET o == orientations[k]
             L == o.length
             W == o.width
             H == o.height
             InBounds(p) == p[1] + L <= c.length /\ p[2] + W <= c.width
                            /\ p[3] + H <= c.height
             valid_positions == SelectSeq(positions_to_try(P), InBounds)
             ok == {j \in 1..Len(valid_positions) :
                        is_position_valid_debug(c, P, valid_positions[j], L, W, H, item)}
         IN  IF L > c.length \/ W > c.width \/ H > c.height
             THEN FindSimpleFrom(c, P, item, orientations, k + 1)
             ELSE IF ok /= {}
                  THEN Placement(Found(valid_positions[CHOOSE j \in ok : \A i \in ok : j <= i],
                                       "adjacent"), o)
                  ELSE FindSimpleFrom(c, P, item, orientations, k + 1)

find_simple_position(c, P, item) ==
    FindSimpleFrom(c, P, item,
        <<Orientation(item.length, item.width, item.height, FALSE)>>
        \o (IF ~item.non_rotatable
            THEN <<Orientation(item.width, item.length, item.height, TRUE)>>
            ELSE <<>>),
        1)

(***************************************************************************)
(* api/calculations.py: the /3d-packing and /3d-bin-packing endpoints and  *)
(* advanced_bin_packing                                                    *)
(***************************************************************************)
\* The endpoints' expansion into PlacedItem: ids are numbered from 0.  The
\* response carries no rotation (PlacedItem has no such field and
\* optimize_3d_packing reports rotated = False), so rotated stays FALSE.
UnitBin(sp, k, i) ==
    [id |-> IF sp.quantity > 1 THEN sp.id \o "_" \o ToString(i) ELSE sp.id,
     spec |-> k,
     length |-> sp.length, width |-> sp.width, height |-> sp.height,
     weight |-> sp.weight,
     non_stackable |-> sp.non_stackable, non_rotatable |-> sp.non_rotatable,
     x |-> 0, y |-> 0, z |-> 0, fitted |-> FALSE, rotated |-> FALSE,
     vol |-> sp.length * sp.width * sp.height,
     via |-> "none"]

RECURSIVE ExpandBin(_, _)
ExpandBin(S, k) ==
    IF k > Len(S) THEN <<>>
    ELSE [j \in 1..S[k].quantity |-> UnitBin(S[k], k, j - 1)] \o ExpandBin(S, k + 1)

\* overlaps(a, b) of advanced_bin_packing: tolerance 0.01 on every face.
overlaps(a, b) ==
    ~ \/ 100 * a.x >= 100 * (b.x + b.length) - 1
      \/ 100 * (a.x + a.length) <= 100 * b.x + 1
      \/ 100 * a.y >= 100 * (b.y + b.width) - 1
      \/ 100 * (a.y + a.width) <= 100 * b.y + 1
      \/ 100 * a.z >= 100 * (b.z + b.height) - 1
      \/ 100 * (a.z + a.height) <= 100 * b.z + 1

TestItem(item, L, W, H, pos) ==
    [id |-> item.id, weight |-> item.weight,
     length |-> L, width |-> W, height |-> H,
     x |-> pos[1], y |-> pos[2], z |-> pos[3], fitted |-> TRUE,
     non_stackable |-> item.non_stackable, non_rotatable |-> item.non_rotatable]

\* adjacent_positions, in the order they are appended.
RECURSIVE AdjacentBin(_, _, _, _, _, _)
AdjacentBin(c, P, k, item, L_W, H) ==
    IF k > Len(P) THEN <<>>
    ELSE LET e == P[k]
         IN  (IF e.x + e.length + L_W[1] <= c.length
              THEN << <<e.x + e.length, e.y, e.z>> >> ELSE <<>>)
             \o (IF e.y + e.width + L_W[2] <= c.width
                 THEN << <<e.x, e.y + e.width, e.z>> >> ELSE <<>>)
             \o (IF ~e.non_stackable /\ ~item.non_stackable
                    /\ e.z + e.height + H <= c.height
                 THEN << <<e.x, e.y, e.z + e.height>> >> ELSE <<>>)
             \o AdjacentBin(c, P, k + 1, item, L_W, H)

\* support_area of the adjacent-position test: a full scan.
RECURSIVE SupportBin(_, _, _, _, _)
SupportBin(P, k, pos, L, W) ==
    IF k > Len(P) THEN 0
    ELSE LET p == P[k]
             overlap_x == Min2(pos[1] + L, p.x + p.length) - Max2(pos[1], p.x)
             overlap_y == Min2(pos[2] + W, p.y + p.width) - Max2(pos[2], p.y)
             counts == /\ ~p.non_stackable
                       /\ 10 * Abs(p.z + p.height - pos[3]) < 1
                       /\ overlap_x > 0 /\ overlap_y > 0
         IN  (IF counts THEN overlap_x * overlap_y ELSE 0) + SupportBin(P, k + 1, pos, L, W)

\* The three tests an adjacent position passes before it becomes a candidate.
AdjacentAccepted(c, P, item, L, W, H, pos) ==
    /\ ~(pos[1] + L > c.length \/ pos[2] + W > c.width \/ pos[3] + H > c.height)
    /\ ~(\E k \in 1..Len(P) : overlaps(TestItem(item, L, W, H, pos), P[k]))
    /\ (pos[3] > 0 =>
            /\ ~item.non_stackable
            /\ ~(10 * SupportBin(P, 1, pos, L, W) < 7 * L * W))

touching_items(P, L, W, H, pos) ==
    LET Touches(p) ==
            LET touching_x == \/ 10 * Abs(p.x + p.length - pos[1]) < 1
                              \/ 10 * Abs(pos[1] + L - p.x) < 1
                touching_y == \/ 10 * Abs(p.y + p.width - pos[2]) < 1
                              \/ 10 * Abs(pos[2] + W - p.y) < 1
                touching_z == \/ 10 * Abs(p.z + p.height - pos[3]) < 1
                              \/ 10 * Abs(pos[3] + H - p.z) < 1
                aligned_x == pos[1] < p.x + p.length /\ pos[1] + L > p.x
                aligned_y == pos[2] < p.y + p.width /\ pos[2] + W > p.y
                aligned_z == pos[3] < p.z + p.height /\ pos[3] + H > p.z
            IN  \/ touching_x /\ aligned_y /\ aligned_z
                \/ touching_y /\ aligned_x /\ aligned_z
                \/ touching_z /\ aligned_x /\ aligned_y
    IN  Cardinality({k \in 1..Len(P) : Touches(P[k])})

AdjacentPriority(P, L, W, H, pos) ==
    -(touching_items(P, L, W, H, pos) * 1000) + pos[3] * 100 + pos[2] * 10 + pos[1]

GridPriority(pos) == pos[3] * 100 + pos[2] * 10 + pos[1]

\* The grid fallback's candidates, in loop order.
GridAccepted(P, item, L, W, H, pos) ==
    /\ ~(\E k \in 1..Len(P) : overlaps(TestItem(item, L, W, H, pos), P[k]))
    /\ ~(pos[3] > 0 /\ item.non_stackable)

\* candidates.sort(key = priority); candidates[0]: the first candidate of
\* least priority.
FirstOfLeastPriority(cands, Priority(_), via) ==
    LET n == Len(cands)
        best == CHOOSE k \in 1..n :
                    /\ \A j \in 1..n : Priority(cands[k]) <= Priority(cands[j])
                    /\ \A j \in 1..(k - 1) : Priority(cands[j]) > Priority(cands[k])
    IN  Found(cands[best], via)

find_best_position(c, P, item, L, W, H) ==
    LET adjacent_positions ==
            IF P = <<>> THEN << <<0, 0, 0>> >>
            ELSE AdjacentBin(c, P, 1, item, <<L, W>>, H)
        Accepted(pos) == AdjacentAccepted(c, P, item, L, W, H, pos)
        candidates == SelectSeq(adjacent_positions, Accepted)
        Prio(pos) == AdjacentPriority(P, L, W, H, pos)
        step == Max2(1, Min3(L, W, H) \div 4)
        grid == GridPositions(Range0(c.height - H + 1, step),
                              Range0(c.width - W + 1, step),
                              Range0(c.length - L + 1, step))
        GridOk(pos) == GridAccepted(P, item, L, W, H, pos)
        grid_candidates == SelectSeq(grid, GridOk)
    IN  IF candidates /= <<>>
        THEN FirstOfLeastPriority(candidates, Prio, "adjacent")
        ELSE IF grid_candidates /= <<>>
             THEN FirstOfLeastPriority(grid_candidates, GridPriority, "grid")
             ELSE NoPosition

\* The orientation loop of advanced_bin_packing, lines 375-390.
RECURSIVE FindBinFrom(_, _, _, _, _)
FindBinFrom(c, P, item, orientations, k) ==
    IF k > Len(orientations) THEN NoPlacement
    ELSE LET o == orientations[k]
         IN  IF o.length <= c.length /\ o.width <= c.width /\ o.height <= c.height
             THEN LET position == find_best_position(c, P, item, o.length, o.width, o.height)
                  IN  IF position.found THEN Placement(position, o)
                      ELSE FindBinFrom(c, P, item, orientations, k + 1)
             ELSE FindBinFrom(c, P, item, orientations, k + 1)

BinOrientations(item) ==
    IF item.non_rotatable
    THEN <<Orientation(item.length, item.width, item.height, FALSE)>>
    ELSE <<Orientation(item.length, item.width, item.height, FALSE),
           Orientation(item.width, item.length, item.height, FALSE)>>

\* "Update original item": the first element of sorted_items whose id is the
\* id of the item just placed.
OriginalItem(U, id) == CHOOSE j \in 1..Len(U) :
                           /\ U[j].id = id
                           /\ \A i \in 1..(j - 1) : U[i].id /= id

\* The assignments a packing loop makes to the item it commits.
Commit(item, best) ==
    [item EXCEPT !.x = best.x, !.y = best.y, !.z = best.z,
                 !.length = best.length, !.width = best.width, !.height = best.height,
                 !.fitted = TRUE, !.rotated = best.rotated, !.via = best.via]

\* placed_items holds references to the items themselves.
PlacedRecords == [k \in 1..Len(placed_items) |-> items[placed_items[k]]]

Init ==
    /\ algo \in Algorithms
    /\ \E r \in Requests : container = r.container /\ specs = r.specs
    /\ pc = "call"
    /\ items = <<>>
    /\ order = <<>>
    /\ cursor = 1
    /\ placed_items = <<>>
    /\ placed = <<>>
    /\ remaining_volume = 0
    /\ dropped = {}
    /\ oversized_items = <<>>
    /\ early_exit = FALSE
    /\ result = <<>>
    /\ error = ""
    /\ runs = <<>>
    /\ validation = <<>>
    /\ batching = <<>>

\* advanced_3d_packing, lines 14-40: expansion and the in-place sort.
Adv_Prepare ==
    /\ algo = "advanced"
    /\ pc = "call"
    /\ items' = StableSort(Expand3D(specs, 1), AdvancedKeyBefore)
    /\ order' = [k \in 1..Len(items') |-> k]
    /\ cursor' = 1
    /\ placed_items' = <<>>
    /\ pc' = "place"
    /\ UNCHANGED <<batching, validation, runs, algo, container, specs, placed, remaining_volume, dropped,
                   oversized_items, result, error, early_exit>>

\* One iteration of the loop of advanced_3d_packing, lines 42-58.
Adv_Place ==
    /\ algo = "advanced"
    /\ pc = "place"
    /\ cursor <= Len(order)
    /\ LET i == order[cursor]
           best_position == find_best_position_improved(container, PlacedRecords, items[i])
       IN  IF best_position.found
           THEN /\ items' = [items EXCEPT ![i] = Commit(items[i], best_position)]
                /\ placed_items' = Append(placed_items, i)
           ELSE UNCHANGED <<items, placed_items>>
    /\ cursor' = cursor + 1
    /\ UNCHANGED <<batching, validation, runs, algo, container, specs, pc, order, placed, remaining_volume,
                   dropped, oversized_items, result, error, early_exit>>

\* advanced_3d_packing, lines 60-65.
Adv_Return ==
    /\ algo = "advanced"
    /\ pc = "place"
    /\ cursor > Len(order)
    /\ result' = items
    /\ pc' = "return"
    /\ UNCHANGED <<batching, validation, runs, algo, container, specs, items, order, cursor, placed_items, placed,
                   remaining_volume, dropped, oversized_items, error, early_exit>>

\* volume_optimized_3d_packing, lines 14-50: expansion, volume_prefilter and
\* smart_priority_sort.
Opt_Prepare ==
    /\ algo = "optimized"
    /\ pc = "call"
    /\ LET container_volume == container.length * container.width * container.height
           U == Expand3D(specs, 1)
           viable_items == volume_prefilter(U, container, container_volume)
       IN  /\ items' = U
           /\ remaining_volume' = container_volume
           /\ oversized_items' = OversizedByDimensions(U, container)
           /\ dropped' = {i \in 1..Len(U) : fits_dimensionally(U[i], container)}
                         \ {viable_items[k] : k \in 1..Len(viable_items)}
           /\ order' = smart_priority_sort(U, viable_items)
    /\ cursor' = 1
    /\ placed_items' = <<>>
    /\ pc' = "place"
    /\ UNCHANGED <<batching, validation, runs, algo, container, specs, placed, result, error, early_exit>>

\* One iteration of the loop of volume_optimized_3d_packing, lines 52-76.
Opt_Place ==
    /\ algo = "optimized"
    /\ pc = "place"
    /\ cursor <= Len(order)
    /\ LET i == order[cursor]
           item == items[i]
           best_position == find_best_position_optimized(container, PlacedRecords, item,
                                                         remaining_volume)
       IN  IF 10 * remaining_volume < 4 * item.vol
           THEN /\ early_exit' = TRUE
                /\ cursor' = Len(order) + 1
                /\ UNCHANGED <<items, placed_items, remaining_volume, pc, error>>
           ELSE IF best_position.raised
           THEN /\ pc' = "raise"
                /\ error' = "TypeError"
                /\ UNCHANGED <<items, placed_items, remaining_volume, cursor, early_exit>>
           ELSE IF best_position.found
           THEN /\ items' = [items EXCEPT ![i] = Commit(item, best_position)]
                /\ placed_items' = Append(placed_items, i)
                /\ remaining_volume' = remaining_volume - item.vol
                /\ cursor' = cursor + 1
                /\ UNCHANGED <<pc, error, early_exit>>
           ELSE /\ cursor' = cursor + 1
                /\ UNCHANGED <<items, placed_items, remaining_volume, pc, error, early_exit>>
    /\ UNCHANGED <<batching, validation, runs, algo, container, specs, order, placed, dropped, oversized_items, result>>

\* placed_items + [item for item in viable_items if not item.fitted] + oversized_items
AllItems ==
    LET Unfitted(i) == ~items[i].fitted
        idx == placed_items \o FilterSeq(order, Unfitted) \o oversized_items
    IN  [k \in 1..Len(idx) |-> items[idx[k]]]

\* volume_optimized_3d_packing, lines 78-88; line 85 divides by the length of
\* the returned list.
Opt_Return ==
    /\ algo = "optimized"
    /\ pc = "place"
    /\ cursor > Len(order)
    /\ IF Len(AllItems) = 0
       THEN /\ pc' = "raise"
            /\ error' = "ZeroDivisionError"
            /\ UNCHANGED result
       ELSE /\ pc' = "return"
            /\ result' = AllItems
            /\ UNCHANGED error
    /\ UNCHANGED <<batching, validation, runs, algo, container, specs, items, order, cursor, placed_items, placed,
                   remaining_volume, dropped, oversized_items, early_exit>>

\* debug_3d_packing, lines 15-98: expansion, the dimensional check, the early
\* return when nothing is viable, and the sort by volume.
Dbg_Prepare ==
    /\ algo = "debug"
    /\ pc = "call"
    /\ LET U == Expand3D(specs, 1)
           viable_items == ViableByDimensions(U, container)
           VolDesc(i, j) == Volume(U[i]) > Volume(U[j])
       IN  /\ items' = U
           /\ oversized_items' = OversizedByDimensions(U, container)
           /\ IF viable_items = <<>>
              THEN /\ pc' = "return"
                   /\ result' = U
                   /\ order' = <<>>
              ELSE /\ pc' = "place"
                   /\ order' = StableSort(viable_items, VolDesc)
                   /\ UNCHANGED result
    /\ cursor' = 1
    /\ placed_items' = <<>>
    /\ UNCHANGED <<batching, validation, runs, algo, container, specs, placed, remaining_volume, dropped, error,
                   early_exit>>

\* One iteration of the loop of debug_3d_packing, lines 100-119.
Dbg_Place ==
    /\ algo = "debug"
    /\ pc = "place"
    /\ cursor <= Len(order)
    /\ LET i == order[cursor]
           best_position == find_simple_position(container, PlacedRecords, items[i])
       IN  IF best_position.found
           THEN /\ items' = [items EXCEPT ![i] = Commit(items[i], best_position)]
                /\ placed_items' = Append(placed_items, i)
           ELSE UNCHANGED <<items, placed_items>>
    /\ cursor' = cursor + 1
    /\ UNCHANGED <<batching, validation, runs, algo, container, specs, pc, order, placed, remaining_volume,
                   dropped, oversized_items, result, error, early_exit>>

\* debug_3d_packing, lines 121-132.
Dbg_Return ==
    /\ algo = "debug"
    /\ pc = "place"
    /\ cursor > Len(order)
    /\ result' = AllItems
    /\ pc' = "return"
    /\ UNCHANGED <<batching, validation, runs, algo, container, specs, items, order, cursor, placed_items, placed,
                   remaining_volume, dropped, oversized_items, error, early_exit>>

\* The endpoint's expansion and advanced_bin_packing, lines 211-214.
Bin_Prepare ==
    /\ algo = "binpack"
    /\ pc = "call"
    /\ LET VolDesc(a, b) == Volume(a) > Volume(b)
       IN  items' = StableSort(ExpandBin(specs, 1), VolDesc)
    /\ order' = [k \in 1..Len(items') |-> k]
    /\ cursor' = 1
    /\ placed' = <<>>
    /\ pc' = "place"
    /\ UNCHANGED <<batching, validation, runs, algo, container, specs, placed_items, remaining_volume, dropped,
                   oversized_items, result, error, early_exit>>

\* One iteration of the loop of advanced_bin_packing, lines 372-404.
Bin_Place ==
    /\ algo = "binpack"
    /\ pc = "place"
    /\ cursor <= Len(order)
    /\ LET item == items[order[cursor]]
           best_position == FindBinFrom(container, placed, item, BinOrientations(item), 1)
           j == OriginalItem(items, item.id)
       IN  IF best_position.found
           THEN /\ placed' = Append(placed,
                                    TestItem(item, best_position.length, best_position.width,
                                             best_position.height,
                                             <<best_position.x, best_position.y,
                                               best_position.z>>))
                /\ items' = [items EXCEPT ![j] =
                                [@ EXCEPT !.x = best_position.x, !.y = best_position.y,
                                          !.z = best_position.z,
                                          !.length = best_position.length,
                                          !.width = best_position.width,
                                          !.height = best_position.height,
                                          !.fitted = TRUE, !.via = best_position.via]]
           ELSE UNCHANGED <<items, placed>>
    /\ cursor' = cursor + 1
    /\ UNCHANGED <<batching, validation, runs, algo, container, specs, pc, order, placed_items, remaining_volume,
                   dropped, oversized_items, result, error, early_exit>>

\* advanced_bin_packing, line 406.
Bin_Return ==
    /\ algo = "binpack"
    /\ pc = "place"
    /\ cursor > Len(order)
    /\ result' = items
    /\ pc' = "return"
    /\ UNCHANGED <<batching, validation, runs, algo, container, specs, items, order, cursor, placed_items, placed,
                   remaining_volume, dropped, oversized_items, error, early_exit>>

Next ==
    \/ Adv_Prepare
    \/ Adv_Place
    \/ Adv_Return
    \/ Opt_Prepare
    \/ Opt_Place
    \/ Opt_Return
    \/ Dbg_Prepare
    \/ Dbg_Place
    \/ Dbg_Return
    \/ Bin_Prepare
    \/ Bin_Place
    \/ Bin_Return

Spec == Init /\ [][Next]_vars

(***************************************************************************)
(* Properties of the packing runs                                          *)
(***************************************************************************)
Fitted(S) == {k \in 1..Len(S) : S[k].fitted}

\* Two boxes overlap by more than tol hundredths of a unit on every axis.
Intersect(a, b, tol) ==
    /\ 100 * a.x + tol < 100 * (b.x + b.length)
    /\ 100 * b.x + tol < 100 * (a.x + a.length)
    /\ 100 * a.y + tol < 100 * (b.y + b.width)
    /\ 100 * b.y + tol < 100 * (a.y + a.width)
    /\ 100 * a.z + tol < 100 * (b.z + b.height)
    /\ 100 * b.z + tol < 100 * (a.z + a.height)

\* Hundredths: 0 in the validators of algorithms/, 0.01 in advanced_bin_packing.
CollisionTolerance == IF algo = "binpack" THEN 1 ELSE 0

NoOverlapIn(S) ==
    \A i \in Fitted(S) : \A j \in Fitted(S) :
        i /= j => ~Intersect(S[i], S[j], CollisionTolerance)

\* The footprints of a and b share a positive area.
FootprintArea(a, b) ==
    Max2(0, Min2(a.x + a.length, b.x + b.length) - Max2(a.x, b.x))
    * Max2(0, Min2(a.y + a.width, b.y + b.width) - Max2(a.y, b.y))

\* b rests on the top face of a (within the 0.1 tolerance).
RestsOn(b, a) ==
    /\ 10 * Abs(a.z + a.height - b.z) < 1
    /\ FootprintArea(a, b) > 0

\* C1: at every step of a run and in its output, no two distinct fitted items
\* overlap in 3D beyond the collision tolerance; the same holds of the list
\* advanced_bin_packing collides new items against.
C1_NoOverlap ==
    /\ NoOverlapIn(items)
    /\ NoOverlapIn(result)
    /\ NoOverlapIn(placed)

\* A returned packing in which one fitted item stands on another.
C1_Witness ==
    /\ pc = "return"
    /\ \E i \in Fitted(result) : \E j \in Fitted(result) :
           i /= j /\ RestsOn(result[j], result[i])

InContainer(it) ==
    /\ 0 <= it.x /\ it.x + it.length <= container.length
    /\ 0 <= it.y /\ it.y + it.width <= container.width
    /\ 0 <= it.z /\ it.z + it.height <= container.height

\* C2: every fitted item lies inside the container, at every step and in the
\* output, whichever candidate (gap candidates and grid included) placed it.
C2_Bounds ==
    /\ \A k \in Fitted(items) : InContainer(items[k])
    /\ \A k \in Fitted(result) : InContainer(result[k])
    /\ \A k \in Fitted(placed) : InContainer(placed[k])

\* advanced_3d_packing returned an item that the adjacency strategy placed at
\* a gap candidate: left of, or behind, an item placed before it.
C2_Witness ==
    /\ pc = "return"
    /\ algo = "advanced"
    /\ \E k \in Fitted(result) : \E e \in Fitted(result) :
           /\ result[k].via = "adjacent"
           /\ \/ /\ result[k].x = result[e].x - result[k].length
                 /\ result[k].y = result[e].y
                 /\ result[k].z = result[e].z
              \/ /\ result[k].x = result[e].x
                 /\ result[k].y = result[e].y - result[k].width
                 /\ result[k].z = result[e].z

\* Tenths of the footprint that must be supported: 0.5 in the validators of
\* algorithms/, 0.7 in advanced_bin_packing.
SupportFraction == IF algo = "binpack" THEN 7 ELSE 5

\* The footprint area of S[k] that lies on top faces of fitted items of S
\* which are not non_stackable, counted from S[j] on.
RECURSIVE SupportedArea(_, _, _)
SupportedArea(S, k, j) ==
    IF j > Len(S) THEN 0
    ELSE (IF /\ j /= k
             /\ S[j].fitted
             /\ ~S[j].non_stackable
             /\ RestsOn(S[k], S[j])
          THEN FootprintArea(S[j], S[k]) ELSE 0)
         + SupportedArea(S, k, j + 1)

Elevated(it) == 10 * it.z > 1

\* C3: every fitted item of the output that is above the ground is supported
\* over at least the support fraction of its footprint by fitted items that
\* are not non_stackable and whose top face is at its z.
C3_Support ==
    \A k \in Fitted(result) :
        Elevated(result[k]) =>
            10 * SupportedArea(result, k, 1)
                >= SupportFraction * result[k].length * result[k].width

CoversFloor(it) ==
    /\ it.x = 0 /\ it.y = 0 /\ it.z = 0
    /\ it.length = container.length /\ it.width = container.width

\* C4: in the output no fitted item rests on a fitted non_stackable item, and
\* when a fitted non_stackable item covers the whole floor every other item
\* is unfitted.
C4_NothingOnNonStackable ==
    /\ \A a \in Fitted(result) : \A b \in Fitted(result) :
           (a /= b /\ result[a].non_stackable) => ~RestsOn(result[b], result[a])
    /\ \A a \in Fitted(result) :
           (result[a].non_stackable /\ CoversFloor(result[a])) =>
               \A b \in 1..Len(result) : b /= a => ~result[b].fitted

\* C5: a fitted non_stackable item is on the ground, at every step and in the
\* output.
C5_NonStackableOnGround ==
    /\ \A k \in Fitted(items) : items[k].non_stackable => ~Elevated(items[k])
    /\ \A k \in Fitted(result) : result[k].non_stackable => ~Elevated(result[k])

\* C6: every output item that comes from a non_rotatable spec has
\* rotated = false and the dimensions of its spec, fitted or not.
C6_NonRotatable ==
    \A k \in 1..Len(result) :
        LET it == result[k]
            sp == specs[it.spec]
        IN  sp.non_rotatable =>
                /\ ~it.rotated
                /\ it.length = sp.length
                /\ it.width = sp.width
                /\ it.height = sp.height

TotalQuantity == SumSeq([k \in 1..Len(specs) |-> specs[k].quantity])

\* C7: the list returned by advanced_3d_packing, volume_optimized_3d_packing
\* or debug_3d_packing has as many items as the sum of the quantities of the
\* input specs.
C7_Conservation ==
    (pc = "return" /\ algo \in {"advanced", "optimized", "debug"}) =>
        Len(result) = TotalQuantity

PositiveDimensions ==
    /\ container.length > 0 /\ container.width > 0 /\ container.height > 0
    /\ \A k \in 1..Len(specs) :
           specs[k].length > 0 /\ specs[k].width > 0 /\ specs[k].height > 0

\* C8: on an input with positive dimensions no run raises, and a run that
\* returns reports every item it could not place, with fitted = false.
C8_NoAbort ==
    PositiveDimensions =>
        /\ pc /= "raise"
        /\ error = ""
        /\ pc = "return" =>
               \A i \in 1..Len(items) :
                   (~items[i].fitted /\ i \notin dropped) =>
                       \E k \in 1..Len(result) : result[k] = items[i]

FittedWeight(S) ==
    SumSeq([k \in 1..Len(S) |-> IF S[k].fitted THEN S[k].weight ELSE 0])

\* C9: the weights of the fitted items of an output add up to at most
\* container.max_weight.
C9_WeightCapacity ==
    pc = "return" => FittedWeight(result) <= container.max_weight

InvalidSpec ==
    \E k \in 1..Len(specs) :
        \/ specs[k].length <= 0 \/ specs[k].width <= 0 \/ specs[k].height <= 0
        \/ specs[k].weight <= 0
        \/ specs[k].quantity < 1

\* C10: an input with an invalid spec is rejected before any placement: no
\* item is ever committed and no result is returned.
C10_InvalidSpecFailsFast ==
    InvalidSpec =>
        /\ Fitted(items) = {}
        /\ placed_items = <<>>
        /\ placed = <<>>
        /\ pc /= "return"

PlacementFields(it) ==
    <<it.x, it.y, it.z, it.length, it.width, it.height, it.fitted, it.rotated>>

\* C11: a unit item's placement fields change only in the loop iteration that
\* visits that item, which commits it (fitted goes from false to true); no
\* other step writes them, so a committed item is never moved or resized.
C11_WriteOnce ==
    [][\A i \in 1..Len(items) :
          (Len(items') = Len(items)
           /\ PlacementFields(items'[i]) /= PlacementFields(items[i])) =>
              /\ pc = "place"
              /\ cursor <= Len(order)
              /\ i = order[cursor]
              /\ ~items[i].fitted
              /\ items'[i].fitted]_vars

\* a comes before b in the stated policy: volume descending, then
\* max dimension / min dimension ascending, then weight descending.
PolicyBefore(a, b) ==
    LET ratio_lt == Max3(a.length, a.width, a.height) * Min3(b.length, b.width, b.height)
                    < Max3(b.length, b.width, b.height) * Min3(a.length, a.width, a.height)
        ratio_eq == Max3(a.length, a.width, a.height) * Min3(b.length, b.width, b.height)
                    = Max3(b.length, b.width, b.height) * Min3(a.length, a.width, a.height)
    IN  \/ Volume(a) > Volume(b)
        \/ Volume(a) = Volume(b) /\ ratio_lt
        \/ Volume(a) = Volume(b) /\ ratio_eq /\ a.weight > b.weight

\* C12: when the placement loop of advanced_3d_packing or
\* volume_optimized_3d_packing starts, the items are in the order of a stable
\* sort by (volume descending, max/min ratio ascending, weight descending):
\* no later item comes before an earlier one in that policy, and items equal
\* in it keep their input order.
C12_OrderingPolicy ==
    (algo \in {"advanced", "optimized"} /\ pc = "place" /\ cursor = 1) =>
        \A p \in 1..Len(order) : \A q \in 1..Len(order) :
            p < q =>
                LET a == items[order[p]]
                    b == items[order[q]]
                IN  /\ ~PolicyBefore(b, a)
                    /\ ~PolicyBefore(a, b) => a.spec <= b.spec

FittingOrientations(orientations, c) ==
    {k \in 1..Len(orientations) :
        /\ orientations[k].length <= c.length
        /\ orientations[k].width <= c.width
        /\ orientations[k].height <= c.height}

\* The scores (the code's priority) of all valid candidates of both strategies
\* of advanced_bin_packing for item, over every orientation that fits.
BinCandidateScores(c, P, item) ==
    LET os == BinOrientations(item)
        Adjacent(o) == IF P = <<>> THEN << <<0, 0, 0>> >>
                       ELSE AdjacentBin(c, P, 1, item, <<o.length, o.width>>, o.height)
        step(o) == Max2(1, Min3(o.length, o.width, o.height) \div 4)
        Grid(o) == GridPositions(Range0(c.height - o.height + 1, step(o)),
                                 Range0(c.width - o.width + 1, step(o)),
                                 Range0(c.length - o.length + 1, step(o)))
    IN  UNION { { AdjacentPriority(P, os[k].length, os[k].width, os[k].height, Adjacent(os[k])[n]) :
                    n \in { m \in 1..Len(Adjacent(os[k])) :
                              AdjacentAccepted(c, P, item, os[k].length, os[k].width,
                                               os[k].height, Adjacent(os[k])[m]) } }
                \cup
                { GridPriority(Grid(os[k])[n]) :
                    n \in { m \in 1..Len(Grid(os[k])) :
                              GridAccepted(P, item, os[k].length, os[k].width,
                                           os[k].height, Grid(os[k])[m]) } }
                : k \in FittingOrientations(os, c) }

BinCommittedScore(P, best) ==
    IF best.via = "adjacent"
    THEN AdjacentPriority(P, best.length, best.width, best.height, <<best.x, best.y, best.z>>)
    ELSE GridPriority(<<best.x, best.y, best.z>>)

\* The position each strategy of advanced_3d_packing returns for each fitting
\* orientation: the strategy's valid candidate that is least in (z, y, x).
ImprovedCandidateMinima(c, P, item) ==
    LET os == get_orientations_improved(item)
        results(o) == { try_corner_placement(c, P, o.length, o.width, o.height, item),
                        try_adjacent_placement_improved(c, P, o.length, o.width, o.height, item),
                        try_fine_grid_placement(c, P, o.length, o.width, o.height, item) }
    IN  UNION { { r.pos : r \in { q \in results(os[k]) : q.found } } :
                k \in FittingOrientations(os, c) }

\* C13: the placement a loop iteration commits has the least score among the
\* valid candidates of every orientation and of both strategies: the priority
\* in advanced_bin_packing, the (z, y, x) order in advanced_3d_packing.
C13_BestCandidate ==
    (pc = "place" /\ cursor <= Len(order)) =>
        /\ algo = "binpack" =>
              LET item == items[order[cursor]]
                  best == FindBinFrom(container, placed, item, BinOrientations(item), 1)
              IN  best.found =>
                      \A sc \in BinCandidateScores(container, placed, item) :
                          BinCommittedScore(placed, best) <= sc
        /\ algo = "advanced" =>
              LET item == items[order[cursor]]
                  best == find_best_position_improved(container, PlacedRecords, item)
              IN  best.found =>
                      \A pos \in ImprovedCandidateMinima(container, PlacedRecords, item) :
                          ~PosBefore(pos, <<best.x, best.y, best.z>>)

WellFormedOrientation(o) ==
    /\ ~o.none
    /\ {"length", "width", "height", "rotated"} \subseteq DOMAIN o
    /\ o.length > 0 /\ o.width > 0 /\ o.height > 0
    /\ o.rotated \in BOOLEAN

\* What the orientation generator owes for item, of a returned sequence os.
OrientationContract(item, os) ==
    /\ os /= <<>>
    /\ \A k \in 1..Len(os) : WellFormedOrientation(os[k])
    /\ os[1] = Orientation(item.length, item.width, item.height, FALSE)
    /\ item.non_rotatable => Len(os) = 1
    /\ ~item.non_rotatable =>
           \E k \in 1..Len(os) :
               /\ os[k].length = item.width
               /\ os[k].width = item.length
               /\ os[k].height = item.height

\* C14: for every unit item, get_orientations_improved and
\* get_orientations_hybrid return a non-empty sequence of well-formed
\* orientations, the original first, alone for a non_rotatable item, and with
\* the length/width swap for a rotatable one.
C14_OrientationGenerator ==
    \A i \in 1..Len(items) :
        /\ OrientationContract(items[i], get_orientations_improved(items[i]))
        /\ OrientationContract(items[i], get_orientations_hybrid(items[i]))

DistinctSpecIds ==
    \A j \in 1..Len(specs) : \A k \in 1..Len(specs) : j /= k => specs[j].id /= specs[k].id

\* C15: when the spec ids are pairwise distinct, the unit items of the
\* quantity expansion have pairwise distinct ids.
C15_CollisionFreeNaming ==
    DistinctSpecIds =>
        \A i \in 1..Len(items) : \A j \in 1..Len(items) :
            i /= j => items[i].id /= items[j].id

RemoveAt(s, k) == SubSeq(s, 1, k - 1) \o SubSeq(s, k + 1, Len(s))

\* The validator of the running function, applied to the committed placement
\* of the k-th entry of the registry R against the rest of R.
Revalidates(R, k) ==
    LET it == R[k]
        pos == <<it.x, it.y, it.z>>
        rest == RemoveAt(R, k)
    IN  CASE algo = "advanced" ->
                 is_valid_position_improved(container, rest, pos,
                                            it.length, it.width, it.height, it)
          [] algo = "optimized" ->
                 is_valid_position_simple(container, rest, pos,
                                          it.length, it.width, it.height, it)
          [] algo = "debug" ->
                 is_position_valid_debug(container, rest, pos,
                                         it.length, it.width, it.height, it)
          [] algo = "binpack" ->
                 AdjacentAccepted(container, rest, it,
                                  it.length, it.width, it.height, pos)

Registry == IF algo = "binpack" THEN placed ELSE PlacedRecords

\* C16: when a run returns, every committed placement is still valid for the
\* function's validator against the final registry without that placement.
C16_Revalidation ==
    pc = "return" => \A k \in 1..Len(Registry) : Revalidates(Registry, k)

\* A stackable item used to probe the validators.
Probe == [id |-> "probe", weight |-> 1, non_stackable |-> FALSE, non_rotatable |-> FALSE]

ProbeBox(pos, L, W, H) ==
    [x |-> pos[1], y |-> pos[2], z |-> pos[3], length |-> L, width |-> W, height |-> H]

\* Probes are taken from the corner of the container at the origin, up to
\* MaxProbe units along each axis.
MaxProbe == 5

ProbeSpan(n) == Min2(n, MaxProbe)

ProbePositions ==
    (0..(ProbeSpan(container.length) - 1)) \X (0..(ProbeSpan(container.width) - 1))
        \X (0..(ProbeSpan(container.height) - 1))

ProbeDimensions ==
    (1..ProbeSpan(container.length)) \X (1..ProbeSpan(container.width))
        \X (1..ProbeSpan(container.height))

\* The footprint area of box b lying on top faces of the entries of R that
\* are not non_stackable, counted from R[j] on.
RECURSIVE AccumulatedSupport(_, _, _)
AccumulatedSupport(R, b, j) ==
    IF j > Len(R) THEN 0
    ELSE (IF ~R[j].non_stackable /\ RestsOn(b, R[j])
          THEN FootprintArea(R[j], b) ELSE 0)
         + AccumulatedSupport(R, b, j + 1)

\* The validator of the running function on a candidate of the probe item.
ValidatorAccepts(R, pos, L, W, H) ==
    CASE algo = "advanced" -> is_valid_position_improved(container, R, pos, L, W, H, Probe)
      [] algo = "optimized" -> is_valid_position_simple(container, R, pos, L, W, H, Probe)
      [] algo = "debug" -> is_position_valid_debug(container, R, pos, L, W, H, Probe)
      [] algo = "binpack" -> AdjacentAccepted(container, R, Probe, L, W, H, pos)

\* An elevated candidate that passes bounds and collision.
SupportCandidate(R, pos, L, W, H) ==
    /\ InContainer(ProbeBox(pos, L, W, H))
    /\ Elevated(ProbeBox(pos, L, W, H))
    /\ \A k \in 1..Len(R) : ~Intersect(ProbeBox(pos, L, W, H), R[k], CollisionTolerance)

\* The validator accepts exactly the support candidates whose accumulated
\* support is at least tenths/10 of the footprint.
BoundaryAt(tenths) ==
    \A pos \in ProbePositions : \A d \in ProbeDimensions :
        SupportCandidate(Registry, pos, d[1], d[2], d[3]) =>
            (ValidatorAccepts(Registry, pos, d[1], d[2], d[3])
                <=> 10 * AccumulatedSupport(Registry, ProbeBox(pos, d[1], d[2], d[3]), 1)
                        >= tenths * d[1] * d[2])

\* C17 as stated: against the registry a run ends with, every validator,
\* the adjacent-position check of advanced_bin_packing included, accepts an
\* elevated stackable candidate exactly when its support is at least 0.5 of
\* its footprint.
C17_BoundaryHalfEverywhere ==
    pc = "return" => BoundaryAt(5)

\* C17 amended: the boundary is 0.5 of the footprint in the three validators
\* of algorithms/ and 0.7 in the adjacent-position check of
\* advanced_bin_packing; support equal to the fraction is accepted, anything
\* smaller is rejected.
C17_SupportBoundary ==
    pc = "return" => BoundaryAt(SupportFraction)

\* advanced_bin_packing returned with a registry on which one candidate has
\* support exactly 0.7 of its footprint and is accepted, and another has
\* support exactly 0.5 of its footprint and is rejected.
C17_Witness ==
    /\ pc = "return"
    /\ algo = "binpack"
    /\ \E pos \in ProbePositions : \E d \in ProbeDimensions :
           /\ SupportCandidate(placed, pos, d[1], d[2], d[3])
           /\ 10 * AccumulatedSupport(placed, ProbeBox(pos, d[1], d[2], d[3]), 1)
                  = 7 * d[1] * d[2]
           /\ ValidatorAccepts(placed, pos, d[1], d[2], d[3])
    /\ \E pos \in ProbePositions : \E d \in ProbeDimensions :
           /\ SupportCandidate(placed, pos, d[1], d[2], d[3])
           /\ 2 * AccumulatedSupport(placed, ProbeBox(pos, d[1], d[2], d[3]), 1)
                  = d[1] * d[2]
           /\ ~ValidatorAccepts(placed, pos, d[1], d[2], d[3])

\* it has the dimensions of the spec it was expanded from, and they fit the
\* container as they are.
FitsAsGiven(it) ==
    /\ specs[it.spec].length <= container.length
    /\ specs[it.spec].width <= container.width
    /\ specs[it.spec].height <= container.height

AtOriginAsGiven(it) ==
    /\ it.fitted
    /\ it.x = 0 /\ it.y = 0 /\ it.z = 0
    /\ ~it.rotated
    /\ it.length = specs[it.spec].length
    /\ it.width = specs[it.spec].width
    /\ it.height = specs[it.spec].height

\* C18: once the first loop iteration is over, and in the output, the first
\* item in processing order, if its original orientation fits the empty
\* container, is fitted at (0,0,0) with rotated = false and its original
\* dimensions.
C18_FirstAtOrigin ==
    (pc \in {"place", "return"} /\ Len(order) >= 1 /\ cursor >= 2) =>
        (FitsAsGiven(items[order[1]]) => AtOriginAsGiven(items[order[1]]))

\* The number of positions the nested range loops of try_fine_grid_placement
\* run over when nothing stops them.
FineGridSize(c, L, W, H) ==
    Len(Range0(c.height - H + 1, Max2(2, Min2(H \div 3, c.height \div 25))))
    * Len(Range0(c.width - W + 1, Max2(3, Min2(W \div 3, c.width \div 20))))
    * Len(Range0(c.length - L + 1, Max2(3, Min2(L \div 3, c.length \div 20))))

\* The same for try_adaptive_grid_placement.
AdaptiveGridSize(c, L, W, H, grid_density) ==
    Len(Range0(c.height - H + 1, grid_density.step_z))
    * Len(Range0(c.width - W + 1, grid_density.step_y))
    * Len(Range0(c.length - L + 1, grid_density.step_x))

\* find_best_position_improved, from orientation k on, reaches a call of
\* try_fine_grid_placement whose iteration_count passes max_iterations: the
\* earlier orientations found nothing, the corner and adjacency strategies
\* fail, and none of the first 800 of more than 800 grid positions is valid.
RECURSIVE FineLimitReachedFrom(_, _, _, _, _)
FineLimitReachedFrom(c, P, item, orientations, k) ==
    IF k > Len(orientations) THEN FALSE
    ELSE LET o == orientations[k]
             L == o.length
             W == o.width
             H == o.height
         IN  IF L > c.length \/ W > c.width \/ H > c.height
             THEN FineLimitReachedFrom(c, P, item, orientations, k + 1)
             ELSE IF try_corner_placement(c, P, L, W, H, item).found THEN FALSE
             ELSE IF try_adjacent_placement_improved(c, P, L, W, H, item).found THEN FALSE
             ELSE IF try_fine_grid_placement(c, P, L, W, H, item).found THEN FALSE
             ELSE \/ FineGridSize(c, L, W, H) > MaxIterationsFine
                  \/ FineLimitReachedFrom(c, P, item, orientations, k + 1)

\* The same for find_best_position_optimized and try_adaptive_grid_placement
\* (limit 1000); the search stops at a None orientation.
RECURSIVE AdaptiveLimitReachedFrom(_, _, _, _, _, _)
AdaptiveLimitReachedFrom(c, P, item, remaining, orientations, k) ==
    IF k > Len(orientations) THEN FALSE
    ELSE LET o == orientations[k]
         IN  IF o.none THEN FALSE
             ELSE
             LET L == o.length
                 W == o.width
                 H == o.height
                 d == calculate_adaptive_grid_density(remaining, c, L, W, H)
             IN  IF L > c.length \/ W > c.width \/ H > c.height
                 THEN AdaptiveLimitReachedFrom(c, P, item, remaining, orientations, k + 1)
                 ELSE IF try_adjacent_placement_optimized(c, P, L, W, H, item).found
                 THEN FALSE
                 ELSE IF try_adaptive_grid_placement(c, P, L, W, H, item, d).found
                 THEN FALSE
                 ELSE \/ AdaptiveGridSize(c, L, W, H, d) > MaxIterationsAdaptive
                      \/ AdaptiveLimitReachedFrom(c, P, item, remaining,
                                                  orientations, k + 1)

\* The loop iteration about to run searches for its item and a grid search
\* of that search runs past its iteration limit.
LimitReached ==
    /\ pc = "place"
    /\ cursor <= Len(order)
    /\ LET item == items[order[cursor]]
       IN  CASE algo = "advanced" ->
                    FineLimitReachedFrom(container, PlacedRecords, item,
                                         get_orientations_improved(item), 1)
             [] algo = "optimized" ->
                    /\ ~(10 * remaining_volume < 4 * item.vol)
                    /\ AdaptiveLimitReachedFrom(container, PlacedRecords, item,
                                                remaining_volume,
                                                get_orientations_hybrid(item), 1)
             [] OTHER -> FALSE

\* C19: when a grid search runs past its iteration limit (800 in
\* try_fine_grid_placement, 1000 in try_adaptive_grid_placement) while an
\* item is searched for, the iteration leaves that item with fitted = false
\* and the loop goes on to the next item; the run is not aborted.
C19_IterationBudget ==
    [][LimitReached =>
           /\ pc' = "place"
           /\ cursor' = cursor + 1
           /\ ~items'[order[cursor]].fitted]_vars

\* The number of positions the grid fallback of advanced_bin_packing's
\* find_best_position runs over; it has no iteration limit.
BinGridSize(c, L, W, H) ==
    LET step == Max2(1, Min3(L, W, H) \div 4)
    IN  Len(Range0(c.height - H + 1, step))
        * Len(Range0(c.width - W + 1, step))
        * Len(Range0(c.length - L + 1, step))

\* The positions one grid search evaluates at most, for an orientation that
\* fits the container: the iteration limit where there is one, and never more
\* than the integer points of the container.
GridSearchBounded(c, L, W, H) ==
    LET points == (c.length + 1) * (c.width + 1) * (c.height + 1)
        evaluated ==
            CASE algo = "advanced" ->
                     Min2(FineGridSize(c, L, W, H), MaxIterationsFine)
              [] algo = "optimized" ->
                     Min2(AdaptiveGridSize(c, L, W, H,
                              calculate_adaptive_grid_density(remaining_volume, c,
                                                              L, W, H)),
                          MaxIterationsAdaptive)
              [] algo = "binpack" -> BinGridSize(c, L, W, H)
              [] OTHER -> 0
    IN  evaluated <= points

\* The unit item at index i has a record in the registry of placed items:
\* placed_items holds the items themselves, placed holds copies that carry
\* the item's id.
Registered(i) ==
    IF algo = "binpack"
    THEN \E k \in 1..Len(placed) : placed[k].id = items[i].id
    ELSE \E k \in 1..Len(placed_items) : placed_items[k] = i

\* Every unit item is Placed (fitted, in the registry) or Unplaceable (not
\* fitted, not in the registry), and the registry has one record per placed
\* item.
TerminalStates ==
    /\ \A i \in 1..Len(items) : items[i].fitted <=> Registered(i)
    /\ Len(Registry) = Cardinality({i \in 1..Len(items) : items[i].fitted})

\* C20 (state part): for inputs with positive dimensions, each grid search of
\* the item being placed evaluates a bounded number of positions, and when the
\* run has returned every unit item is in exactly one of the terminal states
\* Placed (fitted = true, in the registry) and Unplaceable (fitted = false,
\* not in the registry).
C20_Termination ==
    PositiveDimensions =>
        /\ (pc = "place" /\ cursor <= Len(order)) =>
               \A o \in AllRotations(items[order[cursor]]) :
                   (o[1] <= container.length /\ o[2] <= container.width
                        /\ o[3] <= container.height)
                       => GridSearchBounded(container, o[1], o[2], o[3])
        /\ pc = "return" => TerminalStates

\* What is left of a run: the loop iterations still to come, and the return.
StepsLeft ==
    CASE pc = "call" -> TotalQuantity + 2
      [] pc = "place" -> Len(order) + 2 - cursor
      [] OTHER -> 0

\* C20 (progress part): every step of a run brings its end closer.
RunProgresses == [][StepsLeft' < StepsLeft]_vars

(***************************************************************************)
(* api/equipment_endpoints.py: benchmark_packing_algorithms                *)
(*                                                                         *)
(* The endpoint submits advanced_3d_packing and                            *)
(* volume_optimized_3d_packing to the thread pool with the same container  *)
(* and the same list of specs, and awaits both.  Each run is a record of   *)
(* its local variables; the container and the specs are the objects both   *)
(* runs were handed.                                                       *)
(***************************************************************************)
RunNames == {"standard", "optimized"}

\* The locals of a packing run before its first statement.
FreshRun ==
    [pc |-> "call", items |-> <<>>, order |-> <<>>, cursor |-> 1,
     placed_items |-> <<>>, remaining_volume |-> 0, dropped |-> {},
     oversized_items |-> <<>>, early_exit |-> FALSE, result |-> <<>>, error |-> ""]

\* The records of the items a run has appended to its placed_items.
RecordsOf(r) == [k \in 1..Len(r.placed_items) |-> r.items[r.placed_items[k]]]

\* A registry that both runs append to.
SharedRegistry(rs, n) == RecordsOf(rs["standard"]) \o RecordsOf(rs["optimized"])

\* placed_items is a local list of each call: a run reads its own.
RunRegistry(rs, n) == RecordsOf(rs[n])

\* One step of advanced_3d_packing on its locals r, reading the registry P:
\* the expansion and sort, one loop iteration, or the return.
AdvStep(c, S, r, P) ==
    IF r.pc = "call"
    THEN LET U == StableSort(Expand3D(S, 1), AdvancedKeyBefore)
         IN  [r EXCEPT !.items = U, !.order = [k \in 1..Len(U) |-> k],
                       !.cursor = 1, !.placed_items = <<>>, !.pc = "place"]
    ELSE IF r.pc = "place" /\ r.cursor <= Len(r.order)
    THEN LET i == r.order[r.cursor]
             best_position == find_best_position_improved(c, P, r.items[i])
         IN  IF best_position.found
             THEN [r EXCEPT !.items[i] = Commit(r.items[i], best_position),
                            !.placed_items = Append(r.placed_items, i),
                            !.cursor = r.cursor + 1]
             ELSE [r EXCEPT !.cursor = r.cursor + 1]
    ELSE IF r.pc = "place"
    THEN [r EXCEPT !.result = r.items, !.pc = "return"]
    ELSE r

\* all_items of volume_optimized_3d_packing, from the locals r.
AllItemsOf(r) ==
    LET Unfitted(i) == ~r.items[i].fitted
        idx == r.placed_items \o FilterSeq(r.order, Unfitted) \o r.oversized_items
    IN  [k \in 1..Len(idx) |-> r.items[idx[k]]]

\* One step of volume_optimized_3d_packing on its locals r, reading the
\* registry P.
OptStep(c, S, r, P) ==
    IF r.pc = "call"
    THEN LET container_volume == c.length * c.width * c.height
             U == Expand3D(S, 1)
             viable_items == volume_prefilter(U, c, container_volume)
         IN  [r EXCEPT !.items = U,
                       !.remaining_volume = container_volume,
                       !.oversized_items = OversizedByDimensions(U, c),
                       !.dropped = {i \in 1..Len(U) : fits_dimensionally(U[i], c)}
                                   \ {viable_items[k] : k \in 1..Len(viable_items)},
                       !.order = smart_priority_sort(U, viable_items),
                       !.cursor = 1, !.placed_items = <<>>, !.pc = "place"]
    ELSE IF r.pc = "place" /\ r.cursor <= Len(r.order)
    THEN LET i == r.order[r.cursor]
             item == r.items[i]
             best_position == find_best_position_optimized(c, P, item, r.remaining_volume)
         IN  IF 10 * r.remaining_volume < 4 * item.vol
             THEN [r EXCEPT !.early_exit = TRUE, !.cursor = Len(r.order) + 1]
             ELSE IF best_position.raised
             THEN [r EXCEPT !.pc = "raise", !.error = "TypeError"]
             ELSE IF best_position.found
             THEN [r EXCEPT !.items[i] = Commit(item, best_position),
                            !.placed_items = Append(r.placed_items, i),
                            !.remaining_volume = r.remaining_volume - item.vol,
                            !.cursor = r.cursor + 1]
             ELSE [r EXCEPT !.cursor = r.cursor + 1]
    ELSE IF r.pc = "place"
    THEN IF Len(AllItemsOf(r)) = 0
         THEN [r EXCEPT !.pc = "raise", !.error = "ZeroDivisionError"]
         ELSE [r EXCEPT !.pc = "return", !.result = AllItemsOf(r)]
    ELSE r

RunStep(c, S, rs, n) ==
    IF n = "standard" THEN AdvStep(c, S, rs[n], RunRegistry(rs, n))
    ELSE OptStep(c, S, rs[n], RunRegistry(rs, n))

RunDone(r) == r.pc \in {"return", "raise"}

\* The endpoint has converted the request and submitted both runs.
BenchInit ==
    /\ algo = "benchmark"
    /\ \E r \in Requests : container = r.container /\ specs = r.specs
    /\ pc = "call"
    /\ items = <<>>
    /\ order = <<>>
    /\ cursor = 1
    /\ placed_items = <<>>
    /\ placed = <<>>
    /\ remaining_volume = 0
    /\ dropped = {}
    /\ oversized_items = <<>>
    /\ early_exit = FALSE
    /\ result = <<>>
    /\ error = ""
    /\ runs = [n \in RunNames |-> FreshRun]
    /\ validation = <<>>
    /\ batching = <<>>

\* A pool thread takes the next step of the advanced_3d_packing run.
Bench_StandardStep ==
    /\ algo = "benchmark"
    /\ ~RunDone(runs["standard"])
    /\ runs' = [runs EXCEPT !["standard"] = RunStep(container, specs, runs, "standard")]
    /\ UNCHANGED <<batching, validation, algo, container, specs, pc, items, order, cursor,
                   placed_items, placed, remaining_volume, dropped, oversized_items,
                   early_exit, result, error>>

\* A pool thread takes the next step of the volume_optimized_3d_packing run.
Bench_OptimizedStep ==
    /\ algo = "benchmark"
    /\ ~RunDone(runs["optimized"])
    /\ runs' = [runs EXCEPT !["optimized"] = RunStep(container, specs, runs, "optimized")]
    /\ UNCHANGED <<batching, validation, algo, container, specs, pc, items, order, cursor,
                   placed_items, placed, remaining_volume, dropped, oversized_items,
                   early_exit, result, error>>

FittedCount(R) == Cardinality({k \in 1..Len(R) : R[k].fitted})

\* asyncio.gather has both results: lines 424-434, the better run wins, the
\* optimized one on a tie.
Bench_Gather ==
    /\ algo = "benchmark"
    /\ pc = "call"
    /\ runs["standard"].pc = "return"
    /\ runs["optimized"].pc = "return"
    /\ result' = IF FittedCount(runs["optimized"].result)
                        >= FittedCount(runs["standard"].result)
                 THEN runs["optimized"].result
                 ELSE runs["standard"].result
    /\ pc' = "return"
    /\ UNCHANGED <<batching, validation, runs, algo, container, specs, items, order, cursor, placed_items, placed,
                   remaining_volume, dropped, oversized_items, early_exit, error>>

\* asyncio.gather re-raises the exception of a run; the handler of line 473
\* turns it into an HTTPException.  The other run goes on in its thread.
Bench_Fail ==
    /\ algo = "benchmark"
    /\ pc = "call"
    /\ \E n \in RunNames : runs[n].pc = "raise"
    /\ error' = "HTTPException"
    /\ pc' = "raise"
    /\ UNCHANGED <<batching, validation, runs, algo, container, specs, items, order, cursor, placed_items, placed,
                   remaining_volume, dropped, oversized_items, early_exit, result>>

BenchNext ==
    \/ Bench_StandardStep
    \/ Bench_OptimizedStep
    \/ Bench_Gather
    \/ Bench_Fail

BenchSpec == BenchInit /\ [][BenchNext]_vars

\* A run executed alone, from its locals r to its end.
RECURSIVE AloneFrom(_, _, _, _)
AloneFrom(c, S, n, r) ==
    IF RunDone(r) THEN r
    ELSE AloneFrom(c, S, n,
                   IF n = "standard" THEN AdvStep(c, S, r, RecordsOf(r))
                   ELSE OptStep(c, S, r, RecordsOf(r)))

\* What a run reports: how it ended, the list it returned, the exception.
Outcome(r) == [pc |-> r.pc, result |-> r.result, error |-> r.error]

\* The locals of the run of Spec, as a record.
RunState ==
    [pc |-> pc, items |-> items, order |-> order, cursor |-> cursor,
     placed_items |-> placed_items, remaining_volume |-> remaining_volume,
     dropped |-> dropped, oversized_items |-> oversized_items,
     early_exit |-> early_exit, result |-> result, error |-> error]

\* AdvStep and OptStep take the steps of the actions of Spec.
StepsAgree ==
    [][/\ algo = "advanced" =>
              RunState' = AdvStep(container, specs, RunState, PlacedRecords)
       /\ algo = "optimized" =>
              RunState' = OptStep(container, specs, RunState, PlacedRecords)]_vars

\* A step of the benchmark changes the locals of at most one run and leaves
\* the container and the specs both runs read as they were.
RunsDisjoint ==
    [][/\ container' = container
       /\ specs' = specs
       /\ \E n \in RunNames : \A m \in RunNames \ {n} : runs'[m] = runs[m]]_vars

\* C21: under every interleaving of the two runs of the benchmark, a run
\* that has ended reports what it reports when it runs alone on the same
\* container and specs.
C21_RunIsolation ==
    \A n \in RunNames :
        RunDone(runs[n]) =>
            Outcome(runs[n]) = Outcome(AloneFrom(container, specs, n, FreshRun))

\* Both runs are in their loops, each with items placed and items to go.
C21_Witness ==
    /\ algo = "benchmark"
    /\ \A n \in RunNames :
           /\ runs[n].pc = "place"
           /\ runs[n].placed_items /= <<>>
           /\ runs[n].cursor <= Len(runs[n].order)
    /\ runs["standard"].items /= runs["optimized"].items

\* The largest factor the container is scaled by.
MaxScale == 2

\* The container with every dimension multiplied by k.
Scaled(c, k) == Box(c.length * k, c.width * k, c.height * k, c.max_weight)

\* C22: when advanced_3d_packing has returned, the same call on the container
\* scaled up by any factor k >= 1 fits at least as many items.
C22_ScalingMonotone ==
    (algo = "advanced" /\ pc = "return") =>
        \A k \in 1..MaxScale :
            FittedCount(AloneFrom(Scaled(container, k), specs, "standard", FreshRun).result)
                >= FittedCount(result)

\* The placement the loop iteration about to run computes for its item.
NextPlacement ==
    LET item == items[order[cursor]]
    IN  CASE algo = "advanced" ->
                 find_best_position_improved(container, PlacedRecords, item)
          [] algo = "binpack" ->
                 FindBinFrom(container, placed, item, BinOrientations(item), 1)
          [] OTHER -> NoPlacement

\* The orientations the loop of the running function goes through.
SearchOrientations(item) ==
    IF algo = "advanced" THEN get_orientations_improved(item) ELSE BinOrientations(item)

\* Some candidate of the corner or adjacency strategy is valid for the item
\* in the orientation L x W x H.
AdjacencyValid(item, L, W, H) ==
    IF algo = "advanced"
    THEN \/ try_corner_placement(container, PlacedRecords, L, W, H, item).found
         \/ try_adjacent_placement_improved(container, PlacedRecords, L, W, H, item).found
    ELSE LET adjacent_positions ==
                 IF placed = <<>> THEN << <<0, 0, 0>> >>
                 ELSE AdjacentBin(container, placed, 1, item, <<L, W>>, H)
         IN  \E n \in 1..Len(adjacent_positions) :
                 AdjacentAccepted(container, placed, item, L, W, H, adjacent_positions[n])

AdjacencyValidSomewhere(item) ==
    LET os == SearchOrientations(item)
    IN  \E k \in FittingOrientations(os, container) :
            AdjacencyValid(item, os[k].length, os[k].width, os[k].height)

\* The set corners of try_corner_placement (lines 143-167), the origin when
\* nothing is placed yet (lines 137-140).
CornerCandidates(c, P, L, W, H, item) ==
    IF P = <<>> THEN { <<0, 0, 0>> }
    ELSE { p \in UNION { { <<P[k].x + P[k].length, P[k].y, P[k].z>>,
                           <<P[k].x, P[k].y + P[k].width, P[k].z>>,
                           <<P[k].x + P[k].length, P[k].y + P[k].width, P[k].z>> }
                         \cup
                         (IF P[k].non_stackable \/ item.non_stackable THEN {}
                          ELSE { <<P[k].x + dx, P[k].y + dy, P[k].z + P[k].height>> :
                                     dx \in {0, P[k].length}, dy \in {0, P[k].width} })
                         : k \in 1..Len(P) } :
               p[1] + L <= c.length /\ p[2] + W <= c.width /\ p[3] + H <= c.height }

\* The set candidate_positions of try_adjacent_placement_improved (lines
\* 183-209).
ImprovedAdjacentCandidates(c, P, L, W, H, item) ==
    LET R == RecentItemsImproved(P)
    IN  { <<R[k].x + R[k].length, R[k].y, R[k].z>> :
              k \in {j \in 1..Len(R) : R[j].x + R[j].length + L <= c.length} }
        \cup
        { <<R[k].x, R[k].y + R[k].width, R[k].z>> :
              k \in {j \in 1..Len(R) : R[j].y + R[j].width + W <= c.width} }
        \cup
        { <<R[k].x, R[k].y, R[k].z + R[k].height>> :
              k \in {j \in 1..Len(R) : /\ ~R[j].non_stackable /\ ~item.non_stackable
                                       /\ R[j].z + R[j].height + H <= c.height} }
        \cup
        { <<R[k].x - L, R[k].y, R[k].z>> : k \in {j \in 1..Len(R) : R[j].x >= L} }
        \cup
        { <<R[k].x, R[k].y - W, R[k].z>> : k \in {j \in 1..Len(R) : R[j].y >= W} }

\* The set candidate_positions of try_adjacent_placement_optimized (lines
\* 228-249), the origin when nothing is placed yet (lines 222-225).
OptimizedAdjacentCandidates(c, P, L, W, H, item) ==
    IF P = <<>> THEN { <<0, 0, 0>> }
    ELSE LET n == Len(P)
             R == SubSeq(P, n - Min2(RecentLimitOptimized, n) + 1, n)
         IN  { p \in { <<R[k].x + R[k].length, R[k].y, R[k].z>> : k \in 1..Len(R) }
                     \cup
                     { <<R[k].x, R[k].y + R[k].width, R[k].z>> : k \in 1..Len(R) }
                     \cup
                     { <<R[k].x, R[k].y, R[k].z + R[k].height>> :
                           k \in {j \in 1..Len(R) :
                                      /\ ~R[j].non_stackable /\ ~item.non_stackable
                                      /\ R[j].z + R[j].height + H <= c.height} } :
                   p[1] + L <= c.length /\ p[2] + W <= c.width /\ p[3] + H <= c.height }

\* got is the least, in (z, y, x), of the candidates that are in bounds and
\* pass Valid, and nothing is returned only when there is none.
LeastValid(got, candidates, L, W, H, Valid(_)) ==
    LET ok == { p \in candidates :
                    /\ InContainer(ProbeBox(p, L, W, H))
                    /\ Valid(p) }
    IN  IF got.found
        THEN got.pos \in ok /\ \A q \in ok : ~PosBefore(q, got.pos)
        ELSE ok = {}

\* C24: for the item about to be placed and each of its orientations that
\* fits the container, try_corner_placement, try_adjacent_placement_improved
\* and try_adjacent_placement_optimized return the least in (z, y, x) of their
\* in-bounds candidates that pass validation.
C24_CandidateOrder ==
    (algo \in {"advanced", "optimized"} /\ pc = "place" /\ cursor <= Len(order)) =>
        LET item == items[order[cursor]]
            P == PlacedRecords
            c == container
        IN  \A o \in AllRotations(item) :
                (o[1] <= c.length /\ o[2] <= c.width /\ o[3] <= c.height) =>
                    LET L == o[1]
                        W == o[2]
                        H == o[3]
                        ValidImproved(p) == is_valid_position_improved(c, P, p, L, W, H, item)
                        ValidSimple(p) == is_valid_position_simple(c, P, p, L, W, H, item)
                    IN  IF algo = "advanced"
                        THEN /\ LeastValid(try_corner_placement(c, P, L, W, H, item),
                                           CornerCandidates(c, P, L, W, H, item),
                                           L, W, H, ValidImproved)
                             /\ LeastValid(try_adjacent_placement_improved(c, P, L, W, H, item),
                                           ImprovedAdjacentCandidates(c, P, L, W, H, item),
                                           L, W, H, ValidImproved)
                        ELSE LeastValid(try_adjacent_placement_optimized(c, P, L, W, H, item),
                                        OptimizedAdjacentCandidates(c, P, L, W, H, item),
                                        L, W, H, ValidSimple)

\* An item is about to be placed for which a strategy has two valid
\* candidates, and the strategy returns the one that is less in (z, y, x).
C24_Witness ==
    /\ algo \in {"advanced", "optimized"}
    /\ pc = "place"
    /\ cursor <= Len(order)
    /\ LET item == items[order[cursor]]
           P == PlacedRecords
           c == container
           L == item.length
           W == item.width
           H == item.height
           got == IF algo = "advanced"
                  THEN try_corner_placement(c, P, L, W, H, item)
                  ELSE try_adjacent_placement_optimized(c, P, L, W, H, item)
           cands == IF algo = "advanced"
                    THEN CornerCandidates(c, P, L, W, H, item)
                    ELSE OptimizedAdjacentCandidates(c, P, L, W, H, item)
       IN  /\ L <= c.length /\ W <= c.width /\ H <= c.height
           /\ got.found
           /\ \E q \in cands :
                  /\ PosBefore(got.pos, q)
                  /\ IF algo = "advanced"
                     THEN is_valid_position_improved(c, P, q, L, W, H, item)
                     ELSE is_valid_position_simple(c, P, q, L, W, H, item)

\* The list candidates of advanced_bin_packing's find_best_position for the
\* orientation L x W x H, as pairs of a position and its touching_items: the
\* accepted adjacent positions, or, when there are none, the accepted grid
\* positions, which are recorded with touching_items 0.
BinCandidates(c, P, item, L, W, H) ==
    LET adjacent_positions ==
            IF P = <<>> THEN << <<0, 0, 0>> >>
            ELSE AdjacentBin(c, P, 1, item, <<L, W>>, H)
        adjacent == { <<adjacent_positions[n], touching_items(P, L, W, H, adjacent_positions[n])>> :
                        n \in { m \in 1..Len(adjacent_positions) :
                                  AdjacentAccepted(c, P, item, L, W, H, adjacent_positions[m]) } }
        step == Max2(1, Min3(L, W, H) \div 4)
        grid == GridPositions(Range0(c.height - H + 1, step),
                              Range0(c.width - W + 1, step),
                              Range0(c.length - L + 1, step))
    IN  IF adjacent /= {} THEN adjacent
        ELSE { <<grid[n], 0>> : n \in { m \in 1..Len(grid) :
                                          GridAccepted(P, item, L, W, H, grid[m]) } }

\* C25: the position advanced_bin_packing selects for an item is the least in
\* (z, y, x) of the valid candidates of the committed orientation that touch
\* as many placed items as it does.
C25_ScoreLexicographic ==
    (algo = "binpack" /\ pc = "place" /\ cursor <= Len(order)) =>
        LET item == items[order[cursor]]
            best == NextPlacement
        IN  best.found =>
                LET pos == <<best.x, best.y, best.z>>
                    cands == BinCandidates(container, placed, item,
                                           best.length, best.width, best.height)
                    touching == IF best.via = "adjacent"
                                THEN touching_items(placed, best.length, best.width,
                                                    best.height, pos)
                                ELSE 0
                IN  /\ <<pos, touching>> \in cands
                    /\ \A b \in cands : b[2] = touching => ~PosBefore(b[1], pos)

(***************************************************************************)
(* The two validators on lengths given in tenths of a unit, so that a gap  *)
(* of exactly the tolerance 0.1 can be told from a smaller and a larger    *)
(* one: 0.1 is one tenth, and the share 0.5 of the footprint is free of    *)
(* the unit.                                                               *)
(***************************************************************************)
\* A record of lengths in units, in tenths.
InTenths(e) ==
    [e EXCEPT !.x = 10 * e.x, !.y = 10 * e.y, !.z = 10 * e.z,
              !.length = 10 * e.length, !.width = 10 * e.width, !.height = 10 * e.height]

\* The support loop of is_valid_position_simple: an item is skipped when
\* abs(existing.z + existing.height - z) > 0.1; the loop ends early.
RECURSIVE SupportSimpleInTenths(_, _, _, _, _, _, _, _)
SupportSimpleInTenths(P, k, acc, x, y, z, L, W) ==
    IF k > Len(P) THEN acc
    ELSE LET e == P[k]
             ox == OverlapX(x, L, e)
             oy == OverlapY(y, W, e)
             skipped == e.non_stackable \/ Abs(e.z + e.height - z) > 1
             counts == ~skipped /\ ox > 0 /\ oy > 0
             acc2 == IF counts THEN acc + ox * oy ELSE acc
         IN  IF counts /\ 2 * acc2 >= L * W
             THEN acc2
             ELSE SupportSimpleInTenths(P, k + 1, acc2, x, y, z, L, W)

is_valid_position_simple_in_tenths(c, P, pos, L, W, H, item) ==
    LET x == pos[1]
        y == pos[2]
        z == pos[3]
        Quick(e) == /\ Abs(e.x - x) < e.length + L
                    /\ Abs(e.y - y) < e.width + W
                    /\ Abs(e.z - z) < e.height + H
    IN  IF x + L > c.length \/ y + W > c.width \/ z + H > c.height THEN FALSE
        ELSE IF \E k \in 1..Len(P) :
                    Quick(P[k]) /\ BoxesCollide(x, y, z, L, W, H, P[k]) THEN FALSE
        ELSE IF z > 1
             THEN IF item.non_stackable THEN FALSE
                  ELSE 2 * SupportSimpleInTenths(P, 1, 0, x, y, z, L, W) >= L * W
        ELSE TRUE

\* The support sum of is_position_valid_debug: an item counts when
\* abs(existing.z + existing.height - z) < 0.1.
RECURSIVE SupportDebugInTenths(_, _, _, _, _, _, _)
SupportDebugInTenths(P, k, x, y, z, L, W) ==
    IF k > Len(P) THEN 0
    ELSE LET e == P[k]
             ox == OverlapX(x, L, e)
             oy == OverlapY(y, W, e)
             counts == /\ ~e.non_stackable
                       /\ Abs(e.z + e.height - z) < 1
                       /\ ox > 0 /\ oy > 0
         IN  (IF counts THEN ox * oy ELSE 0) + SupportDebugInTenths(P, k + 1, x, y, z, L, W)

is_position_valid_debug_in_tenths(c, P, pos, L, W, H, item) ==
    LET x == pos[1]
        y == pos[2]
        z == pos[3]
    IN  IF x + L > c.length \/ y + W > c.width \/ z + H > c.height THEN FALSE
        ELSE IF \E k \in 1..Len(P) : BoxesCollide(x, y, z, L, W, H, P[k]) THEN FALSE
        ELSE IF z > 1
             THEN IF item.non_stackable THEN FALSE
                  ELSE ~(2 * SupportDebugInTenths(P, 1, x, y, z, L, W) < L * W)
        ELSE TRUE

RegistryInTenths == [k \in 1..Len(Registry) |-> InTenths(Registry[k])]

\* On lengths of whole units the validators in tenths decide as the
\* validators in units do.
TenthsAgreeWithUnits ==
    pc = "return" =>
        \A pos \in ProbePositions : \A d \in ProbeDimensions :
            /\ is_valid_position_simple(container, Registry, pos, d[1], d[2], d[3], Probe)
                   = is_valid_position_simple_in_tenths(InTenths(container), RegistryInTenths,
                         <<10 * pos[1], 10 * pos[2], 10 * pos[3]>>,
                         10 * d[1], 10 * d[2], 10 * d[3], Probe)
            /\ is_position_valid_debug(container, Registry, pos, d[1], d[2], d[3], Probe)
                   = is_position_valid_debug_in_tenths(InTenths(container), RegistryInTenths,
                         <<10 * pos[1], 10 * pos[2], 10 * pos[3]>>,
                         10 * d[1], 10 * d[2], 10 * d[3], Probe)

\* The arguments of the validators, lengths in tenths: a container 1 x 1 x 2,
\* a registry of one item at the origin or of two items side by side, with
\* heights 0.1 and 0.5, and candidates at heights 0, 0.1, 0.2 and 0.5.
ValidatorContainer == Box(10, 10, 20, DefaultMaxWeight)

Existing(x, l, h, ns) ==
    [x |-> x, y |-> 0, z |-> 0, length |-> l, width |-> 10, height |-> h,
     non_stackable |-> ns]

ValidatorRegistries ==
    { <<Existing(0, l, h, ns)>> : l \in {5, 10}, h \in {1, 5}, ns \in BOOLEAN }
    \cup
    { <<Existing(0, 5, h, ns), Existing(5, 5, h, ns2)>> :
          h \in {1, 5}, ns \in BOOLEAN, ns2 \in BOOLEAN }

ValidatorArguments ==
    { [placed_items |-> P, pos |-> <<x, 0, z>>, L |-> L, W |-> 10, H |-> H,
       item |-> [Probe EXCEPT !.non_stackable = ns]] :
          P \in ValidatorRegistries, x \in {0, 5}, z \in {0, 1, 2, 5},
          L \in {5, 10}, H \in {5, 10}, ns \in BOOLEAN }

\* Neither validator has been called yet.
ValidatorInit ==
    /\ algo = "validators"
    /\ container = ValidatorContainer
    /\ specs = <<>>
    /\ pc = "call"
    /\ items = <<>>
    /\ order = <<>>
    /\ cursor = 1
    /\ placed_items = <<>>
    /\ placed = <<>>
    /\ remaining_volume = 0
    /\ dropped = {}
    /\ oversized_items = <<>>
    /\ early_exit = FALSE
    /\ result = <<>>
    /\ error = ""
    /\ runs = <<>>
    /\ batching = <<>>
    /\ \E a \in ValidatorArguments :
           validation = [args |-> a, simple |-> "none", debug |-> "none"]

Verdict(b) == IF b THEN "valid" ELSE "invalid"

\* A call of is_valid_position_simple.
Validate_Simple ==
    /\ algo = "validators"
    /\ validation.simple = "none"
    /\ LET a == validation.args
       IN  validation' =
               [validation EXCEPT !.simple =
                    Verdict(is_valid_position_simple_in_tenths(
                                container, a.placed_items, a.pos, a.L, a.W, a.H, a.item))]
    /\ UNCHANGED <<batching, runs, algo, container, specs, pc, items, order, cursor, placed_items, placed,
                   remaining_volume, dropped, oversized_items, early_exit, result, error>>

\* A call of is_position_valid_debug.
Validate_Debug ==
    /\ algo = "validators"
    /\ validation.debug = "none"
    /\ LET a == validation.args
       IN  validation' =
               [validation EXCEPT !.debug =
                    Verdict(is_position_valid_debug_in_tenths(
                                container, a.placed_items, a.pos, a.L, a.W, a.H, a.item))]
    /\ UNCHANGED <<batching, runs, algo, container, specs, pc, items, order, cursor, placed_items, placed,
                   remaining_volume, dropped, oversized_items, early_exit, result, error>>

ValidatorNext ==
    \/ Validate_Simple
    \/ Validate_Debug

ValidatorSpec == ValidatorInit /\ [][ValidatorNext]_vars

\* C26: called on the same container, registry, candidate position, effective
\* dimensions and item, is_valid_position_simple and is_position_valid_debug
\* return the same boolean.
C26_ValidatorsAgree ==
    (algo = "validators" /\ validation.simple /= "none" /\ validation.debug /= "none")
        => validation.simple = validation.debug

\* The same for candidates that do not lie exactly 0.1 above the top face of
\* a placed item.
ValidatorsAgreeOffTolerance ==
    (/\ algo = "validators" /\ validation.simple /= "none" /\ validation.debug /= "none"
     /\ \A k \in 1..Len(validation.args.placed_items) :
            LET e == validation.args.placed_items[k]
            IN  Abs(e.z + e.height - validation.args.pos[3]) /= 1)
        => validation.simple = validation.debug

\* The validators agree on the whole-unit candidates of a finished run.
ValidatorsAgreeOnUnits ==
    pc = "return" =>
        \A pos \in ProbePositions : \A d \in ProbeDimensions : \A ns \in BOOLEAN :
            is_valid_position_simple(container, Registry, pos, d[1], d[2], d[3],
                                     [Probe EXCEPT !.non_stackable = ns])
                = is_position_valid_debug(container, Registry, pos, d[1], d[2], d[3],
                                          [Probe EXCEPT !.non_stackable = ns])

(***************************************************************************)
(* api/equipment_endpoints.py: process_in_smart_batches                    *)
(*                                                                         *)
(* The request is expanded into unit items, sorted by volume, and cut into *)
(* batches of batch_size items.  Every batch is sent, with the container   *)
(* of the request, to calculate_3d_bin_packing_volume_optimized, which     *)
(* runs volume_optimized_3d_packing on it; what the batches return is      *)
(* concatenated.                                                           *)
(***************************************************************************)
\* The largest batch_size the function is called with.
MaxBatchSize == 2

\* Lines 284-296: one BinPackingItem of quantity 1 per unit; i is the loop
\* index of range(quantity).
BatchUnit(sp, i) ==
    [sp EXCEPT !.id = IF sp.quantity > 1 THEN sp.id \o "_" \o ToString(i) ELSE sp.id,
               !.quantity = 1]

RECURSIVE ExpandRequest(_, _)
ExpandRequest(S, k) ==
    IF k > Len(S) THEN <<>>
    ELSE [j \in 1..S[k].quantity |-> BatchUnit(S[k], j - 1)] \o ExpandRequest(S, k + 1)

\* Line 299: sort(key = volume, reverse = True).
LargerVolume(a, b) == Volume(a) > Volume(b)

\* Lines 314-321: the PlacedItem of an item of a skipped batch.
SkippedItem(it) == [Unit3D(it, 0, 0) EXCEPT !.via = "skipped"]

\* calculate_3d_bin_packing_volume_optimized on a batch: the run of
\* volume_optimized_3d_packing on the container of the request.
BatchRun(c, batch) == AloneFrom(c, batch, "optimized", FreshRun)

FittedVolume(R) == SumSeq([k \in 1..Len(R) |-> IF R[k].fitted THEN Volume(R[k]) ELSE 0])

BatchInit ==
    /\ algo = "batches"
    /\ \E r \in Requests : container = r.container /\ specs = r.specs
    /\ pc = "call"
    /\ items = <<>>
    /\ order = <<>>
    /\ cursor = 1
    /\ placed_items = <<>>
    /\ placed = <<>>
    /\ remaining_volume = 0
    /\ dropped = {}
    /\ oversized_items = <<>>
    /\ early_exit = FALSE
    /\ result = <<>>
    /\ error = ""
    /\ runs = <<>>
    /\ validation = <<>>
    /\ \E b \in 1..MaxBatchSize :
           batching = [batch_size |-> b, expanded_items |-> <<>>, i |-> 0,
                       all_placed_items |-> <<>>, remaining_volume |-> 0,
                       batches |-> <<>>]

\* Lines 283-304: expansion, sort, and the volume of the container.
Batch_Prepare ==
    /\ algo = "batches"
    /\ pc = "call"
    /\ batching' = [batching EXCEPT
                        !.expanded_items = StableSort(ExpandRequest(specs, 1), LargerVolume),
                        !.remaining_volume = Volume(container)]
    /\ pc' = "place"
    /\ UNCHANGED <<validation, runs, algo, container, specs, items, order, cursor, placed_items,
                   placed, remaining_volume, dropped, oversized_items, early_exit, result,
                   error>>

\* Lines 307-342: one iteration of the loop over the batches.  batches is
\* bookkeeping of the model: the number of the batch each output item is of.
Batch_Process ==
    /\ algo = "batches"
    /\ pc = "place"
    /\ batching.i < Len(batching.expanded_items)
    /\ LET b == batching
           n == Len(b.expanded_items)
           batch == SubSeq(b.expanded_items, b.i + 1, Min2(b.i + b.batch_size, n))
           batch_volume == SumSeq([k \in 1..Len(batch) |-> Volume(batch[k])])
           batch_num == b.i \div b.batch_size
           run == BatchRun(container, batch)
           Numbered(R) == [k \in 1..Len(R) |-> batch_num]
       IN  IF 10 * b.remaining_volume < 3 * batch_volume
           THEN /\ batching' =
                       [b EXCEPT !.all_placed_items =
                                      @ \o [k \in 1..Len(batch) |-> SkippedItem(batch[k])],
                                 !.batches = @ \o Numbered(batch),
                                 !.i = b.i + b.batch_size]
                /\ UNCHANGED <<pc, error>>
           ELSE IF run.pc = "raise"
           THEN /\ pc' = "raise"
                /\ error' = "HTTPException"
                /\ UNCHANGED batching
           ELSE /\ batching' =
                       [b EXCEPT !.all_placed_items = @ \o run.result,
                                 !.batches = @ \o Numbered(run.result),
                                 !.remaining_volume = @ - FittedVolume(run.result),
                                 !.i = b.i + b.batch_size]
                /\ UNCHANGED <<pc, error>>
    /\ UNCHANGED <<validation, runs, algo, container, specs, items, order, cursor, placed_items,
                   placed, remaining_volume, dropped, oversized_items, early_exit, result>>

\* Lines 344-363: the response carries all_placed_items.
Batch_Return ==
    /\ algo = "batches"
    /\ pc = "place"
    /\ batching.i >= Len(batching.expanded_items)
    /\ result' = batching.all_placed_items
    /\ pc' = "return"
    /\ UNCHANGED <<batching, validation, runs, algo, container, specs, items, order, cursor,
                   placed_items, placed, remaining_volume, dropped, oversized_items,
                   early_exit, error>>

BatchNext ==
    \/ Batch_Prepare
    \/ Batch_Process
    \/ Batch_Return

BatchSpec == BatchInit /\ [][BatchNext]_vars

\* C27: in the combined output of process_in_smart_batches no two fitted
\* items overlap in 3D, whether they were fitted in the same batch or in
\* different ones.
C27_BatchesNoOverlap ==
    (algo = "batches" /\ pc = "return") => NoOverlapIn(result)

\* The fitted items of one and the same batch do not overlap.
NoOverlapWithinBatch ==
    (algo = "batches" /\ pc = "return") =>
        \A i \in Fitted(result) : \A j \in Fitted(result) :
            (i /= j /\ batching.batches[i] = batching.batches[j])
                => ~Intersect(result[i], result[j], 0)

(***************************************************************************)
(* The volume budget of volume_optimized_3d_packing                        *)
(***************************************************************************)
\* The volume of the items the loop has still to visit, the next one included.
VolumeToVisit ==
    SumSeq([k \in 1..(Len(order) - cursor + 1) |-> items[order[cursor + k - 1]].vol])

\* What volume_prefilter lets through is at most 0.95 of the container
\* volume, so the budget always covers the items still to visit and 0.05 of
\* the container volume.
BudgetCoversSurvivors ==
    (algo = "optimized" /\ pc = "place") =>
        100 * remaining_volume >= 100 * VolumeToVisit + 5 * Volume(container)

\* C28: the break of volume_optimized_3d_packing is never taken: whenever
\* an item that survived volume_prefilter is about to be attempted,
\* remaining_volume is at least 0.4 of its volume.
C28_EarlyExitUnreachable ==
    algo = "optimized" =>
        /\ ~early_exit
        /\ (pc = "place" /\ cursor <= Len(order)) =>
               10 * remaining_volume >= 4 * items[order[cursor]].vol

\* The strict filter has left items out, items have been placed, and the
\* next survivor takes more than half of what remains of the budget.
C28_Witness ==
    /\ algo = "optimized"
    /\ pc = "place"
    /\ dropped /= {}
    /\ placed_items /= <<>>
    /\ cursor <= Len(order)
    /\ 2 * items[order[cursor]].vol > remaining_volume

(***************************************************************************)
(* The rotated flag of advanced_3d_packing                                 *)
(***************************************************************************)
\* The dimensions an item has in the list S, and those of the spec it was
\* expanded from.
EffectiveTriple(it) == <<it.length, it.width, it.height>>
OriginalTriple(it) ==
    <<specs[it.spec].length, specs[it.spec].width, specs[it.spec].height>>

RotatedFlagAgrees(S) ==
    \A k \in 1..Len(S) : S[k].rotated <=> (EffectiveTriple(S[k]) /= OriginalTriple(S[k]))

\* C29: at every step of advanced_3d_packing and in its output, an item has
\* rotated = true exactly when its effective (length, width, height) differs
\* from the triple of its spec; an orientation that coincides with the
\* original triple is never committed with rotated = true.
C29_RotatedFlag ==
    algo = "advanced" => (RotatedFlagAgrees(items) /\ RotatedFlagAgrees(result))

\* The swap of length and width, or of length and height, gives the item its
\* original triple back.
HasCoincidingOrientation(it) ==
    /\ ~it.non_rotatable
    /\ \/ specs[it.spec].length = specs[it.spec].width
       \/ (specs[it.spec].length = specs[it.spec].height
           /\ specs[it.spec].length /= specs[it.spec].width)

\* An output with a rotated item, a fitted item that has an orientation
\* coinciding with its original triple, and an item that was tried in such an
\* orientation and fitted nowhere.
C29_Witness ==
    /\ algo = "advanced"
    /\ pc = "return"
    /\ \E k \in 1..Len(result) : result[k].fitted /\ result[k].rotated
    /\ \E k \in 1..Len(result) : result[k].fitted /\ HasCoincidingOrientation(result[k])
    /\ \E k \in 1..Len(result) :
           /\ ~result[k].fitted
           /\ HasCoincidingOrientation(result[k])
           /\ result[k].length <= container.length
           /\ result[k].width <= container.width
           /\ result[k].height <= container.height

(***************************************************************************)
(* Determinism of advanced_3d_packing                                      *)
(*                                                                         *)
(* corners and candidate_positions are Python sets: the order in which     *)
(* sorted() receives their elements is not fixed by the program.  sorted() *)
(* is stable, so two candidates with the same key leave it in the order    *)
(* the set happened to yield them.  The definitions below compute every    *)
(* placement a loop iteration can arrive at, over all iteration orders.    *)
(***************************************************************************)
\* A sort key that looks at the height of the position only.
sort_key_height_only(pos) == <<pos[3]>>

\* key = lambda pos: (pos[2], pos[1], pos[0])
sort_key(pos) == <<pos[3], pos[2], pos[1]>>

\* Python's comparison of two tuples of the same length.
TupleLess(a, b) ==
    \E i \in 1..Len(a) : a[i] < b[i] /\ \A j \in 1..(i - 1) : a[j] = b[j]

\* The positions the loop "for pos in sorted(...): if valid: return pos" can
\* return: the valid candidates no valid candidate is sorted before.
FirstValidInSomeOrder(candidates, Valid(_)) ==
    { p \in candidates :
          Valid(p) /\ \A q \in candidates : Valid(q) => ~TupleLess(sort_key(q), sort_key(p)) }

\* The placements find_best_position_improved can return, from orientation k on.
RECURSIVE PossiblePlacementsFrom(_, _, _, _, _)
PossiblePlacementsFrom(c, P, item, orientations, k) ==
    IF k > Len(orientations) THEN { NoPlacement }
    ELSE LET o == orientations[k]
             L == o.length
             W == o.width
             H == o.height
             Valid(p) == is_valid_position_improved(c, P, p, L, W, H, item)
             corners == FirstValidInSomeOrder(CornerCandidates(c, P, L, W, H, item), Valid)
             adjacent == FirstValidInSomeOrder(
                             ImprovedAdjacentCandidates(c, P, L, W, H, item), Valid)
             grid == try_fine_grid_placement(c, P, L, W, H, item)
         IN  IF L > c.length \/ W > c.width \/ H > c.height
             THEN PossiblePlacementsFrom(c, P, item, orientations, k + 1)
             ELSE IF corners /= {}
             THEN { Placement(Found(p, "corner"), o) : p \in corners }
             ELSE IF adjacent /= {}
             THEN { Placement(Found(p, "adjacent"), o) : p \in adjacent }
             ELSE IF grid.found
             THEN { Placement(grid, o) }
             ELSE PossiblePlacementsFrom(c, P, item, orientations, k + 1)

PossiblePlacements(c, P, item) ==
    PossiblePlacementsFrom(c, P, item, get_orientations_improved(item), 1)

\* C30: advanced_3d_packing is a function of its input: whatever order the
\* candidate sets of try_corner_placement and try_adjacent_placement_improved
\* are iterated in, each loop iteration arrives at one and the same
\* placement, so two runs on the same container and specs return the same
\* positions, dimensions, fitted and rotated flags.
C30_Deterministic ==
    (algo = "advanced" /\ pc = "place" /\ cursor <= Len(order)) =>
        PossiblePlacements(container, PlacedRecords, items[order[cursor]])
            = { find_best_position_improved(container, PlacedRecords, items[order[cursor]]) }

\* An item is about to be placed at a corner candidate, and another valid
\* corner candidate lies at the same height.
C30_Witness ==
    /\ algo = "advanced"
    /\ pc = "place"
    /\ cursor <= Len(order)
    /\ LET item == items[order[cursor]]
           best == NextPlacement
       IN  /\ best.found
           /\ best.via = "corner"
           /\ \E q \in CornerCandidates(container, PlacedRecords,
                                        best.length, best.width, best.height, item) :
                  /\ q /= <<best.x, best.y, best.z>>
                  /\ q[3] = best.z
                  /\ is_valid_position_improved(container, PlacedRecords, q,
                                                best.length, best.width, best.height, item)

====
